---- MODULE Spec2Model ----
(***************************************************************************)
(* The per-bar trading loops of src/optimize.py (momentum_algo,            *)
(* dynamic_momentum_algo, reversion_algo, dynamic_reversion_algo) and of   *)
(* src/backtest.py (algo, dynamic_algo).                                   *)
(*                                                                         *)
(* One step of the model is one iteration of the `for i in range(1,        *)
(* len(data))` loop of the variant that runs.  The indicator columns       *)
(* (MACD_diff, RSI, ATR, ...) are computed by the `ta` library before the  *)
(* loop: they are inputs here, one row being drawn for every iteration.    *)
(*                                                                         *)
(* Arithmetic is exact.  Prices and volatility readings are integers, an   *)
(* ATR multiplier is held in tenths (20 is 2.0, 15 is 1.5), and money is   *)
(* counted in lots of LOT = 125 currency units: 125 divides ASSET_VALUE,   *)
(* MULTIPLIER * MARGIN_RATIO / ACCOUNT_RATIO = 21875 and TAX * MULTIPLIER  *)
(* = 47000, so every cash movement of the code is a whole number of lots.  *)
(***************************************************************************)
EXTENDS Integers, Sequences, FiniteSets, TLC

(***************************************************************************)
(* Bounds of the model.                                                    *)
(***************************************************************************)
\* rows 1..MaxBars are iterated by the single-strategy variants
MaxBars == 3
\* rows 1..MaxBarsHybrid are iterated by the hybrid variants
MaxBarsHybrid == 2

(***************************************************************************)
(* utils.py: the constants.                                                *)
(***************************************************************************)
LOT == 5 ^ 3

ASSET_VALUE == (2 * (10 ^ 8)) \div LOT

MULTIPLIER == 10 ^ 5

\* TAX * MULTIPLIER, with TAX = 0.47
TAX_MULTIPLIER == ((47 * MULTIPLIER) \div 100) \div LOT

\* price_multiplier = MULTIPLIER * MARGIN_RATIO / ACCOUNT_RATIO = 10^5 * 0.175 / 0.8
price_multiplier == ((MULTIPLIER * 175) \div 800) \div LOT

(***************************************************************************)
(* Inputs: the rows of the data table.  na is the set of the columns whose *)
(* reading is NaN in the row.                                              *)
(***************************************************************************)
Prices == {400, 4600}

MACDValues == {-1, 0, 1}

\* around the momentum bands (rsi_threshold, 50, 100 - rsi_threshold)
RSIValues == {20, 35, 50, 65, 80}

\* around the reversion bands (30, 50, 70)
RSIRevValues == {20, 30, 50, 70, 80}

ATRValues == {0, 2100, 2800}

\* (ATR_short, ATR_long)
Regimes == {<<10, 20>>, <<20, 10>>}

RsiThresholds == {20}

\* atr_multiplier of the static variants, in tenths
AtrMultipliers == {20}

Columns == {"RSI", "MACD_diff", "ATR"}

HybridColumns == {"RSI_mom", "MACD_diff_mom", "ATR_mom", "RSI_rev", "MACD_diff_rev", "ATR_rev"}

\* rows of momentum_algo: every reading defined, or one reading NaN in a row
\* whose other readings would trade
MomentumRows ==
    [Close : Prices, MACD_diff : MACDValues, RSI : RSIValues, ATR : ATRValues, na : {{}}]
    \cup [Close : Prices, MACD_diff : {1}, RSI : {65}, ATR : {2100}, na : {{c} : c \in Columns}]

ReversionRows ==
    [Close : Prices, MACD_diff : MACDValues, RSI : RSIRevValues, ATR : ATRValues, na : {{}}]
    \cup [Close : Prices, MACD_diff : {1}, RSI : {20}, ATR : {2100}, na : {{c} : c \in Columns}]

\* the dynamic variants also read ATR_short and ATR_long: every row with
\* short < long and with short > long, and the rows of the largest ATR that
\* have a trend with short = long
WithRegime(rows) ==
    {[Close |-> r.Close, MACD_diff |-> r.MACD_diff, RSI |-> r.RSI, ATR |-> r.ATR,
      ATR_short |-> g[1], ATR_long |-> g[2], na |-> r.na] : r \in rows, g \in Regimes}
    \cup {[Close |-> r.Close, MACD_diff |-> r.MACD_diff, RSI |-> r.RSI, ATR |-> r.ATR,
           ATR_short |-> 10, ATR_long |-> 10, na |-> r.na] :
              r \in {x \in rows : x.na = {} /\ x.MACD_diff # 0 /\ x.ATR = 2800}}

DynamicMomentumRows == WithRegime(MomentumRows)

DynamicReversionRows == WithRegime(ReversionRows)

\* rows of algo.  Each track is taken through all its readings while the other
\* track's readings neither enter nor exit by indicator; then both tracks get
\* entry readings together; then one reading is NaN.
HybridRows ==
    [Close : Prices, MACD_diff_mom : MACDValues, RSI_mom : RSIValues, ATR_mom : ATRValues,
     MACD_diff_rev : {0}, RSI_rev : {30}, ATR_rev : {2100}, na : {{}}]
    \cup [Close : Prices, MACD_diff_mom : {0}, RSI_mom : {50}, ATR_mom : {2100},
          MACD_diff_rev : MACDValues, RSI_rev : RSIRevValues, ATR_rev : ATRValues, na : {{}}]
    \cup [Close : Prices, MACD_diff_mom : {-1, 1}, RSI_mom : {35, 65}, ATR_mom : {2100},
          MACD_diff_rev : {-1, 1}, RSI_rev : {20, 80}, ATR_rev : {2100}, na : {{}}]
    \cup [Close : Prices, MACD_diff_mom : {1}, RSI_mom : {65}, ATR_mom : {2100},
          MACD_diff_rev : {1}, RSI_rev : {20}, ATR_rev : {2100}, na : {{c} : c \in HybridColumns}]

\* (ATR_mom_short, ATR_mom_long, ATR_rev_short, ATR_rev_long)
HybridRegimes == {<<10, 20, 20, 10>>, <<20, 10, 10, 20>>}

\* every row of algo in the two regimes, and the rows that give both tracks
\* entry readings with short = long on both tracks
DynamicHybridRows ==
    {[Close |-> r.Close, MACD_diff_mom |-> r.MACD_diff_mom, RSI_mom |-> r.RSI_mom,
      ATR_mom |-> r.ATR_mom, MACD_diff_rev |-> r.MACD_diff_rev, RSI_rev |-> r.RSI_rev,
      ATR_rev |-> r.ATR_rev, ATR_mom_short |-> g[1], ATR_mom_long |-> g[2],
      ATR_rev_short |-> g[3], ATR_rev_long |-> g[4], na |-> r.na] :
        r \in HybridRows, g \in HybridRegimes}
    \cup {[Close |-> r.Close, MACD_diff_mom |-> r.MACD_diff_mom, RSI_mom |-> r.RSI_mom,
           ATR_mom |-> r.ATR_mom, MACD_diff_rev |-> r.MACD_diff_rev, RSI_rev |-> r.RSI_rev,
           ATR_rev |-> r.ATR_rev, ATR_mom_short |-> 10, ATR_mom_long |-> 10,
           ATR_rev_short |-> 10, ATR_rev_long |-> 10, na |-> r.na] :
              r \in {x \in HybridRows :
                        x.na = {} /\ x.MACD_diff_mom # 0 /\ x.MACD_diff_rev # 0}}

NoRow == [Close |-> 0, na |-> Columns \cup HybridColumns]

HybridVariants == {"algo", "dynamic_algo"}

SingleVariants == {"momentum_algo", "dynamic_momentum_algo", "reversion_algo", "dynamic_reversion_algo"}

DynamicVariants == {"dynamic_momentum_algo", "dynamic_reversion_algo", "dynamic_algo"}

VARIABLES
    variant,          \* the function that runs
    rsi_threshold,    \* rsi_threshold (momentum_rsi_threshold in backtest.py)
    atr_multiplier,   \* atr_multiplier: a parameter, or the local of a dynamic variant
    i,                \* the loop index: the last row read
    row,              \* data.iloc[i]
    date,             \* data.index[i] of the last processed bar
    cur_price,        \* row['Close'] of the last processed bar
    cash,
    holdings,         \* list of (entry_date, pos_type, entry_price, quantity, stop_loss, take_profit)
    holdings_momentum,
    holdings_reversion,
    momentum_atr_multiplier,    \* a parameter of algo, a local of dynamic_algo
    reversion_atr_multiplier,
    trading_data,     \* trading_data['Asset'], by row
    Return,           \* data['Return'], the column the functions of utils.py read
    outcome,          \* what the last call of a function of utils.py gave
    args,             \* backtest.py, __main__: the parsed command line
    result,           \* ... the table the selected algorithm returned
    printed,          \* ... the lines of the report printed so far
    data,             \* data_loader.py: the raw table given to process_split_data
    in_sample,        \* ... and the two tables it returns
    out_sample

vars == <<variant, rsi_threshold, atr_multiplier, i, row, date, cur_price,
          cash, holdings, holdings_momentum, holdings_reversion,
          momentum_atr_multiplier, reversion_atr_multiplier, trading_data,
          Return, outcome, args, result, printed, data, in_sample, out_sample>>

\* what the trading loops leave alone
metric_vars == <<Return, outcome>>

script_vars == <<args, result, printed>>

loader_vars == <<data, in_sample, out_sample>>

\* no command line has been parsed, no table returned, no table loaded
NoArgs == [dynamic |-> "none"]

NoTable == [Asset |-> <<>>, Return |-> <<>>]

\* no function of utils.py has been called
NotRun == [metric |-> "none"]

\* what the single-strategy variants leave alone
hybrid_vars == <<holdings_momentum, holdings_reversion,
                 momentum_atr_multiplier, reversion_atr_multiplier>>

(***************************************************************************)
(* Helpers shared by the loops.                                            *)
(***************************************************************************)
isna(r, col) == col \in r.na

Min(a, b) == IF a < b THEN a ELSE b

\* floor(x / y) for y > 0
floor(x, y) == x \div y

\* row['ATR'] * atr_multiplier, the multiplier in tenths
atr_times(atr, mult) == (atr * mult) \div 10

pos_type(position) == position[2]
entry_price(position) == position[3]
quantity(position) == position[4]
stop_loss(position) == position[5]
take_profit(position) == position[6]

\* a close that charges no tax
close_cash_untaxed(position, price) ==
    IF pos_type(position) = "LONG"
    THEN quantity(position) * price * price_multiplier
    ELSE -(quantity(position) * price * price_multiplier)

\* the cash movement of closing one position at price
close_cash(position, price) ==
    IF pos_type(position) = "LONG"
    THEN quantity(position) * price * price_multiplier - quantity(position) * TAX_MULTIPLIER
    ELSE -(quantity(position) * price * price_multiplier + quantity(position) * TAX_MULTIPLIER)

\* closing cash that also charges one unit on a bar that closes nothing
RECURSIVE sum_close_cash_with_fee(_, _)
sum_close_cash_with_fee(closed, price) ==
    IF closed = <<>> THEN -1
    ELSE close_cash(Head(closed), price)
         + (IF Tail(closed) = <<>> THEN 0 ELSE sum_close_cash_with_fee(Tail(closed), price))

RECURSIVE sum_close_cash(_, _)
sum_close_cash(closed, price) ==
    IF closed = <<>> THEN 0
    ELSE close_cash(Head(closed), price) + sum_close_cash(Tail(closed), price)

\* the open positions valued at their entry price instead of the price of the bar
RECURSIVE total_unrealized_at_entry(_, _)
total_unrealized_at_entry(hs, price) ==
    IF hs = <<>> THEN 0
    ELSE (IF pos_type(Head(hs)) = "LONG"
          THEN entry_price(Head(hs)) * price_multiplier * quantity(Head(hs))
          ELSE -(entry_price(Head(hs)) * price_multiplier * quantity(Head(hs))))
         + total_unrealized_at_entry(Tail(hs), price)

\* sum(cur_price * price_multiplier * pos[3] if pos[1] == 'LONG' else -... for pos in hs)
RECURSIVE total_unrealized(_, _)
total_unrealized(hs, price) ==
    IF hs = <<>> THEN 0
    ELSE (IF pos_type(Head(hs)) = "LONG"
          THEN price * price_multiplier * quantity(Head(hs))
          ELSE -(price * price_multiplier * quantity(Head(hs))))
         + total_unrealized(Tail(hs), price)

\* the cash movement of opening q contracts at price: a LONG is paid for, a
\* SHORT is credited
open_cash_taxed(side, q, price) ==
    IF side = "LONG" THEN -(q * price * price_multiplier) - q * TAX_MULTIPLIER
    ELSE q * price * price_multiplier - q * TAX_MULTIPLIER

open_cash(side, q, price) ==
    IF side = "LONG" THEN -(q * price * price_multiplier) ELSE q * price * price_multiplier

\* the tuple appended to the holdings: the levels are set from the ATR of the bar
new_position(d, side, price, q, atr, mult) ==
    IF side = "LONG"
    THEN <<d, "LONG", price, q, price - atr_times(atr, mult), price + atr_times(atr, mult)>>
    ELSE <<d, "SHORT", price, q, price + atr_times(atr, mult), price - atr_times(atr, mult)>>

\* `if quantity > 0:` cash and holdings after opening, if anything is opened
open_position(c, hs, d, side, price, q, atr, mult) ==
    IF q > 0
    THEN <<c + open_cash(side, q, price), Append(hs, new_position(d, side, price, q, atr, mult))>>
    ELSE <<c, hs>>

(***************************************************************************)
(* optimize.py: momentum_algo.                                             *)
(***************************************************************************)
\* an exit test whose oscillator bounds are strict
momentum_exit_strict(position, r, thr) ==
    IF pos_type(position) = "LONG"
    THEN \/ r.Close >= take_profit(position)
         \/ r.Close <= stop_loss(position)
         \/ r.RSI > 100 - thr
         \/ r.MACD_diff < 0
    ELSE \/ r.Close <= take_profit(position)
         \/ r.Close >= stop_loss(position)
         \/ r.RSI < thr
         \/ r.MACD_diff > 0

\* the exit test of one position
momentum_exit(position, r, thr) ==
    IF pos_type(position) = "LONG"
    THEN \/ r.Close >= take_profit(position)
         \/ r.Close <= stop_loss(position)
         \/ r.RSI >= 100 - thr
         \/ r.MACD_diff < 0
    ELSE \/ r.Close <= take_profit(position)
         \/ r.Close >= stop_loss(position)
         \/ r.RSI <= thr
         \/ r.MACD_diff > 0

\* the LONG and the SHORT entry conditions
momentum_long_signal_loose(r, thr) ==
    r.MACD_diff > 0 /\ 50 <= r.RSI /\ r.RSI < 100 - thr

momentum_long_signal_nonnegative(r, thr) ==
    r.MACD_diff >= 0 /\ 50 < r.RSI /\ r.RSI < 100 - thr

momentum_long_signal(r, thr) ==
    r.MACD_diff > 0 /\ 50 < r.RSI /\ r.RSI < 100 - thr

momentum_short_signal(r, thr) ==
    r.MACD_diff < 0 /\ thr < r.RSI /\ r.RSI < 50

\* an entry whose LONG quantity is capped like the SHORT one
momentum_open_long_capped(c, hs, r, d, thr, mult) ==
    IF momentum_long_signal(r, thr)
    THEN open_position(c, hs, d, "LONG", r.Close,
                       Min(floor(c, 2 * r.Close * price_multiplier), 3), r.ATR, mult)
    ELSE IF momentum_short_signal(r, thr)
    THEN open_position(c, hs, d, "SHORT", r.Close,
                       Min(floor(c, 2 * r.Close * price_multiplier), 3), r.ATR, mult)
    ELSE <<c, hs>>

\* the body of `if not holdings:`; gives <<cash, holdings>>
momentum_open(c, hs, r, d, thr, mult) ==
    IF momentum_long_signal(r, thr)
    THEN open_position(c, hs, d, "LONG", r.Close,
                       floor(c, 2 * r.Close * price_multiplier), r.ATR, mult)
    ELSE IF momentum_short_signal(r, thr)
    THEN open_position(c, hs, d, "SHORT", r.Close,
                       Min(floor(c, 2 * r.Close * price_multiplier), 3), r.ATR, mult)
    ELSE <<c, hs>>

\* an entry gated on the holdings as they were before the exits of the bar
momentum_entry_before_exits(c, hs, r, d, thr, mult) ==
    IF holdings # <<>> THEN <<c, hs>> ELSE momentum_open(c, hs, r, d, thr, mult)

momentum_entry_ungated(c, hs, r, d, thr, mult) == momentum_open(c, hs, r, d, thr, mult)

\* `if not holdings:` ... the entry
momentum_entry(c, hs, r, d, thr, mult) ==
    IF hs # <<>> THEN <<c, hs>> ELSE momentum_open(c, hs, r, d, thr, mult)

\* an iteration that sells out at the end of the last row: everything still
\* open after the entry is closed at the price of the row
momentum_algo_step_liquidating(r, d) ==
    IF isna(r, "RSI") \/ isna(r, "MACD_diff") \/ isna(r, "ATR")
    THEN UNCHANGED <<date, cur_price, cash, holdings, trading_data, atr_multiplier>>
    ELSE LET kept == SelectSeq(holdings, LAMBDA p : ~momentum_exit(p, r, rsi_threshold))
             closed == SelectSeq(holdings, LAMBDA p : momentum_exit(p, r, rsi_threshold))
             cash1 == cash + sum_close_cash(closed, r.Close)
             asset_value == cash1 + total_unrealized(kept, r.Close)
             entered == momentum_entry(cash1, kept, r, d, rsi_threshold, atr_multiplier)
             last == d = MaxBars
         IN /\ date' = d
            /\ cur_price' = r.Close
            /\ trading_data' = [trading_data EXCEPT ![d] = asset_value]
            /\ cash' = IF last THEN entered[1] + sum_close_cash(entered[2], r.Close) ELSE entered[1]
            /\ holdings' = IF last THEN <<>> ELSE entered[2]
            /\ UNCHANGED atr_multiplier

\* one iteration of the loop of momentum_algo on row r = data.iloc[d]
momentum_algo_step(r, d) ==
    IF isna(r, "RSI") \/ isna(r, "MACD_diff") \/ isna(r, "ATR")
    THEN UNCHANGED <<date, cur_price, cash, holdings, trading_data, atr_multiplier>>
    ELSE LET kept == SelectSeq(holdings, LAMBDA p : ~momentum_exit(p, r, rsi_threshold))
             closed == SelectSeq(holdings, LAMBDA p : momentum_exit(p, r, rsi_threshold))
             cash1 == cash + sum_close_cash(closed, r.Close)
             asset_value == cash1 + total_unrealized(kept, r.Close)
             entered == momentum_entry(cash1, kept, r, d, rsi_threshold, atr_multiplier)
         IN /\ date' = d
            /\ cur_price' = r.Close
            /\ trading_data' = [trading_data EXCEPT ![d] = asset_value]
            /\ cash' = entered[1]
            /\ holdings' = entered[2]
            /\ UNCHANGED atr_multiplier

momentum_algo ==
    /\ variant = "momentum_algo"
    /\ i < MaxBars
    /\ \E r \in MomentumRows :
        /\ i' = i + 1
        /\ row' = r
        /\ momentum_algo_step(r, i + 1)
    /\ UNCHANGED <<variant, rsi_threshold, hybrid_vars, metric_vars, script_vars, loader_vars>>

(***************************************************************************)
(* optimize.py: dynamic_momentum_algo.  The exit loop and the entry are    *)
(* the text of momentum_algo; atr_multiplier is a local set on every       *)
(* processed bar.                                                          *)
(***************************************************************************)
\* a policy that takes the higher constant when the two readings are equal
dynamic_atr_multiplier_at_least(r) == IF r.ATR_short >= r.ATR_long THEN 20 ELSE 15

\* `if row['ATR_short'] > row['ATR_long']: atr_multiplier = 2.0 else: 1.5`
dynamic_atr_multiplier(r) == IF r.ATR_short > r.ATR_long THEN 20 ELSE 15

\* a loop that moves the levels of the positions it keeps to the multiplier
\* and the ATR of the bar
dynamic_momentum_algo_step_trailing(r, d) ==
    IF isna(r, "RSI") \/ isna(r, "MACD_diff") \/ isna(r, "ATR")
    THEN UNCHANGED <<date, cur_price, cash, holdings, trading_data, atr_multiplier>>
    ELSE LET mult == dynamic_atr_multiplier(r)
             kept == SelectSeq(holdings, LAMBDA p : ~momentum_exit(p, r, rsi_threshold))
             closed == SelectSeq(holdings, LAMBDA p : momentum_exit(p, r, rsi_threshold))
             moved == [k \in 1..Len(kept) |->
                          new_position(kept[k][1], pos_type(kept[k]), entry_price(kept[k]),
                                       quantity(kept[k]), r.ATR, mult)]
             cash1 == cash + sum_close_cash(closed, r.Close)
             asset_value == cash1 + total_unrealized(moved, r.Close)
             entered == momentum_entry(cash1, moved, r, d, rsi_threshold, mult)
         IN /\ date' = d
            /\ cur_price' = r.Close
            /\ atr_multiplier' = mult
            /\ trading_data' = [trading_data EXCEPT ![d] = asset_value]
            /\ cash' = entered[1]
            /\ holdings' = entered[2]

dynamic_momentum_algo_step(r, d) ==
    IF isna(r, "RSI") \/ isna(r, "MACD_diff") \/ isna(r, "ATR")
    THEN UNCHANGED <<date, cur_price, cash, holdings, trading_data, atr_multiplier>>
    ELSE LET mult == dynamic_atr_multiplier(r)
             kept == SelectSeq(holdings, LAMBDA p : ~momentum_exit(p, r, rsi_threshold))
             closed == SelectSeq(holdings, LAMBDA p : momentum_exit(p, r, rsi_threshold))
             cash1 == cash + sum_close_cash(closed, r.Close)
             asset_value == cash1 + total_unrealized(kept, r.Close)
             entered == momentum_entry(cash1, kept, r, d, rsi_threshold, mult)
         IN /\ date' = d
            /\ cur_price' = r.Close
            /\ atr_multiplier' = mult
            /\ trading_data' = [trading_data EXCEPT ![d] = asset_value]
            /\ cash' = entered[1]
            /\ holdings' = entered[2]

dynamic_momentum_algo ==
    /\ variant = "dynamic_momentum_algo"
    /\ i < MaxBars
    /\ \E r \in DynamicMomentumRows :
        /\ i' = i + 1
        /\ row' = r
        /\ dynamic_momentum_algo_step(r, i + 1)
    /\ UNCHANGED <<variant, rsi_threshold, hybrid_vars, metric_vars, script_vars, loader_vars>>

(***************************************************************************)
(* optimize.py: reversion_algo.                                            *)
(***************************************************************************)
reversion_exit(position, r) ==
    IF pos_type(position) = "LONG"
    THEN \/ r.Close >= take_profit(position)
         \/ r.Close <= stop_loss(position)
         \/ r.RSI >= 50
         \/ r.MACD_diff < 0
    ELSE \/ r.Close <= take_profit(position)
         \/ r.Close >= stop_loss(position)
         \/ r.RSI <= 50
         \/ r.MACD_diff > 0

reversion_long_signal_loose(r) == r.MACD_diff > 0 /\ r.RSI <= 30

reversion_long_signal(r) == r.MACD_diff > 0 /\ r.RSI < 30

reversion_short_signal(r) == r.MACD_diff < 0 /\ r.RSI > 70

reversion_open(c, hs, r, d, mult) ==
    IF reversion_long_signal(r)
    THEN open_position(c, hs, d, "LONG", r.Close,
                       floor(c, 2 * r.Close * price_multiplier), r.ATR, mult)
    ELSE IF reversion_short_signal(r)
    THEN open_position(c, hs, d, "SHORT", r.Close,
                       Min(floor(c, 2 * r.Close * price_multiplier), 3), r.ATR, mult)
    ELSE <<c, hs>>

reversion_entry(c, hs, r, d, mult) ==
    IF hs # <<>> THEN <<c, hs>> ELSE reversion_open(c, hs, r, d, mult)

\* an iteration that may or may not take the entry its row signals
reversion_algo_step_optional_entry(r, d) ==
    IF isna(r, "RSI") \/ isna(r, "MACD_diff") \/ isna(r, "ATR")
    THEN UNCHANGED <<date, cur_price, cash, holdings, trading_data, atr_multiplier>>
    ELSE LET kept == SelectSeq(holdings, LAMBDA p : ~reversion_exit(p, r))
             closed == SelectSeq(holdings, LAMBDA p : reversion_exit(p, r))
             cash1 == cash + sum_close_cash(closed, r.Close)
             asset_value == cash1 + total_unrealized(kept, r.Close)
         IN \E entered \in {reversion_entry(cash1, kept, r, d, atr_multiplier), <<cash1, kept>>} :
            /\ date' = d
            /\ cur_price' = r.Close
            /\ trading_data' = [trading_data EXCEPT ![d] = asset_value]
            /\ cash' = entered[1]
            /\ holdings' = entered[2]
            /\ UNCHANGED atr_multiplier

reversion_algo_step(r, d) ==
    IF isna(r, "RSI") \/ isna(r, "MACD_diff") \/ isna(r, "ATR")
    THEN UNCHANGED <<date, cur_price, cash, holdings, trading_data, atr_multiplier>>
    ELSE LET kept == SelectSeq(holdings, LAMBDA p : ~reversion_exit(p, r))
             closed == SelectSeq(holdings, LAMBDA p : reversion_exit(p, r))
             cash1 == cash + sum_close_cash(closed, r.Close)
             asset_value == cash1 + total_unrealized(kept, r.Close)
             entered == reversion_entry(cash1, kept, r, d, atr_multiplier)
         IN /\ date' = d
            /\ cur_price' = r.Close
            /\ trading_data' = [trading_data EXCEPT ![d] = asset_value]
            /\ cash' = entered[1]
            /\ holdings' = entered[2]
            /\ UNCHANGED atr_multiplier

reversion_algo ==
    /\ variant = "reversion_algo"
    /\ i < MaxBars
    /\ \E r \in ReversionRows :
        /\ i' = i + 1
        /\ row' = r
        /\ reversion_algo_step(r, i + 1)
    /\ UNCHANGED <<variant, rsi_threshold, hybrid_vars, metric_vars, script_vars, loader_vars>>

(***************************************************************************)
(* optimize.py: dynamic_reversion_algo (the exit loop and the entry are    *)
(* the text of reversion_algo).                                            *)
(***************************************************************************)
dynamic_reversion_algo_step(r, d) ==
    IF isna(r, "RSI") \/ isna(r, "MACD_diff") \/ isna(r, "ATR")
    THEN UNCHANGED <<date, cur_price, cash, holdings, trading_data, atr_multiplier>>
    ELSE LET mult == dynamic_atr_multiplier(r)
             kept == SelectSeq(holdings, LAMBDA p : ~reversion_exit(p, r))
             closed == SelectSeq(holdings, LAMBDA p : reversion_exit(p, r))
             cash1 == cash + sum_close_cash(closed, r.Close)
             asset_value == cash1 + total_unrealized(kept, r.Close)
             entered == reversion_entry(cash1, kept, r, d, mult)
         IN /\ date' = d
            /\ cur_price' = r.Close
            /\ atr_multiplier' = mult
            /\ trading_data' = [trading_data EXCEPT ![d] = asset_value]
            /\ cash' = entered[1]
            /\ holdings' = entered[2]

dynamic_reversion_algo ==
    /\ variant = "dynamic_reversion_algo"
    /\ i < MaxBars
    /\ \E r \in DynamicReversionRows :
        /\ i' = i + 1
        /\ row' = r
        /\ dynamic_reversion_algo_step(r, i + 1)
    /\ UNCHANGED <<variant, rsi_threshold, hybrid_vars, metric_vars, script_vars, loader_vars>>

(***************************************************************************)
(* backtest.py: algo.                                                      *)
(***************************************************************************)
\* "Exit Momentum Positions": the test of one position
algo_momentum_exit(position, r, thr) ==
    \/ /\ pos_type(position) = "LONG"
       /\ \/ r.Close >= take_profit(position)
          \/ r.Close <= stop_loss(position)
          \/ r.RSI_mom >= 100 - thr
          \/ r.MACD_diff_mom < 0
    \/ /\ pos_type(position) # "LONG"
       /\ pos_type(position) = "SHORT"
       /\ \/ r.Close <= take_profit(position)
          \/ r.Close >= stop_loss(position)
          \/ r.RSI_mom <= thr
          \/ r.MACD_diff_mom > 0

\* a reversion exit whose SHORT side closes at an oscillator of 50 or less,
\* the test of reversion_algo
algo_reversion_exit_short_below(position, r) ==
    \/ /\ pos_type(position) = "LONG"
       /\ \/ r.Close >= take_profit(position)
          \/ r.Close <= stop_loss(position)
          \/ r.RSI_rev >= 50
          \/ r.MACD_diff_rev < 0
    \/ /\ pos_type(position) = "SHORT"
       /\ \/ r.Close <= take_profit(position)
          \/ r.Close >= stop_loss(position)
          \/ r.RSI_rev <= 50
          \/ r.MACD_diff_rev > 0

\* "Exit Mean Reversion Positions": the test of one position
algo_reversion_exit(position, r) ==
    \/ /\ pos_type(position) = "LONG"
       /\ \/ r.Close >= take_profit(position)
          \/ r.Close <= stop_loss(position)
          \/ r.RSI_rev >= 50
          \/ r.MACD_diff_rev < 0
    \/ /\ pos_type(position) # "LONG"
       /\ pos_type(position) = "SHORT"
       /\ \/ r.Close <= take_profit(position)
          \/ r.Close >= stop_loss(position)
          \/ r.RSI_rev >= 50
          \/ r.MACD_diff_rev > 0

\* a momentum entry whose LONG is sized from the whole cash instead of half of it
algo_momentum_entry_whole_cash(cash2, c, hs, r, d, thr, mult) ==
    IF hs # <<>> THEN <<c, hs>>
    ELSE IF r.MACD_diff_mom > 0 /\ 50 < r.RSI_mom /\ r.RSI_mom < 100 - thr
    THEN open_position(c, hs, d, "LONG", r.Close,
                       floor(cash2, r.Close * price_multiplier), r.ATR_mom, mult)
    ELSE IF r.MACD_diff_mom < 0 /\ thr < r.RSI_mom /\ r.RSI_mom < 50
    THEN open_position(c, hs, d, "SHORT", r.Close,
                       floor(cash2, 2 * r.Close * price_multiplier), r.ATR_mom, mult)
    ELSE <<c, hs>>

\* "Momentum Entry Logic".  available_cash = cash2 / 2, with cash2 the cash after
\* the exits; c is the running cash; gives <<cash, holdings_momentum>>.  The SHORT
\* quantity is floor(available_cash / (cur_price * price_multiplier)), with no min
algo_momentum_entry(cash2, c, hs, r, d, thr, mult) ==
    IF hs # <<>> THEN <<c, hs>>
    ELSE IF r.MACD_diff_mom > 0 /\ 50 < r.RSI_mom /\ r.RSI_mom < 100 - thr
    THEN open_position(c, hs, d, "LONG", r.Close,
                       floor(cash2, 2 * r.Close * price_multiplier), r.ATR_mom, mult)
    ELSE IF r.MACD_diff_mom < 0 /\ thr < r.RSI_mom /\ r.RSI_mom < 50
    THEN open_position(c, hs, d, "SHORT", r.Close,
                       floor(cash2, 2 * r.Close * price_multiplier), r.ATR_mom, mult)
    ELSE <<c, hs>>

\* a reversion entry sized from half of the running cash, that is the cash
\* after the momentum entry of the bar
algo_reversion_entry_running_cash(cash2, c, hs, r, d, mult) ==
    IF hs # <<>> THEN <<c, hs>>
    ELSE IF r.MACD_diff_rev > 0 /\ r.RSI_rev < 30
    THEN open_position(c, hs, d, "LONG", r.Close,
                       floor(c, 2 * r.Close * price_multiplier), r.ATR_rev, mult)
    ELSE IF r.MACD_diff_rev < 0 /\ r.RSI_rev > 70
    THEN open_position(c, hs, d, "SHORT", r.Close,
                       Min(floor(c, 2 * r.Close * price_multiplier), 3), r.ATR_rev, mult)
    ELSE <<c, hs>>

\* "Mean Reversion Entry Logic"; gives <<cash, holdings_reversion>>
algo_reversion_entry(cash2, c, hs, r, d, mult) ==
    IF hs # <<>> THEN <<c, hs>>
    ELSE IF r.MACD_diff_rev > 0 /\ r.RSI_rev < 30
    THEN open_position(c, hs, d, "LONG", r.Close,
                       floor(cash2, 2 * r.Close * price_multiplier), r.ATR_rev, mult)
    ELSE IF r.MACD_diff_rev < 0 /\ r.RSI_rev > 70
    THEN open_position(c, hs, d, "SHORT", r.Close,
                       Min(floor(cash2, 2 * r.Close * price_multiplier), 3), r.ATR_rev, mult)
    ELSE <<c, hs>>

\* the `continue` test of algo and dynamic_algo
algo_skip(r) ==
    \/ isna(r, "RSI_mom") \/ isna(r, "MACD_diff_mom") \/ isna(r, "ATR_mom")
    \/ isna(r, "RSI_rev") \/ isna(r, "MACD_diff_rev") \/ isna(r, "ATR_rev")

\* the loop body of algo after the `continue` test, with the multipliers of the bar
algo_body(r, d, mom_mult, rev_mult) ==
    LET kept_mom == SelectSeq(holdings_momentum, LAMBDA p : ~algo_momentum_exit(p, r, rsi_threshold))
        closed_mom == SelectSeq(holdings_momentum, LAMBDA p : algo_momentum_exit(p, r, rsi_threshold))
        cash1 == cash + sum_close_cash(closed_mom, r.Close)
        kept_rev == SelectSeq(holdings_reversion, LAMBDA p : ~algo_reversion_exit(p, r))
        closed_rev == SelectSeq(holdings_reversion, LAMBDA p : algo_reversion_exit(p, r))
        cash2 == cash1 + sum_close_cash(closed_rev, r.Close)
        asset_value == cash2 + total_unrealized(kept_mom \o kept_rev, r.Close)
        mom == algo_momentum_entry(cash2, cash2, kept_mom, r, d, rsi_threshold, mom_mult)
        rev == algo_reversion_entry(cash2, mom[1], kept_rev, r, d, rev_mult)
    IN /\ date' = d
       /\ cur_price' = r.Close
       /\ trading_data' = [trading_data EXCEPT ![d] = asset_value]
       /\ holdings_momentum' = mom[2]
       /\ cash' = rev[1]
       /\ holdings_reversion' = rev[2]

algo_step(r, d) ==
    IF algo_skip(r)
    THEN UNCHANGED <<date, cur_price, cash, holdings_momentum, holdings_reversion,
                     trading_data, momentum_atr_multiplier, reversion_atr_multiplier>>
    ELSE /\ algo_body(r, d, momentum_atr_multiplier, reversion_atr_multiplier)
         /\ UNCHANGED <<momentum_atr_multiplier, reversion_atr_multiplier>>

algo ==
    /\ variant = "algo"
    /\ i < MaxBarsHybrid
    /\ \E r \in HybridRows :
        /\ i' = i + 1
        /\ row' = r
        /\ algo_step(r, i + 1)
    /\ UNCHANGED <<variant, rsi_threshold, atr_multiplier, holdings, metric_vars, script_vars, loader_vars>>

(***************************************************************************)
(* backtest.py: dynamic_algo (the exits and the entries are the text of    *)
(* algo; the two multipliers are locals set on every processed bar).       *)
(***************************************************************************)
\* a momentum policy with the two constants of the other policies
dynamic_momentum_atr_multiplier_tuned(r) == IF r.ATR_mom_short > r.ATR_mom_long THEN 20 ELSE 15

\* both branches of the momentum comparison assign 2.0
dynamic_momentum_atr_multiplier(r) == IF r.ATR_mom_short > r.ATR_mom_long THEN 20 ELSE 20

dynamic_reversion_atr_multiplier(r) == IF r.ATR_rev_short > r.ATR_rev_long THEN 20 ELSE 15

dynamic_algo_step(r, d) ==
    IF algo_skip(r)
    THEN UNCHANGED <<date, cur_price, cash, holdings_momentum, holdings_reversion,
                     trading_data, momentum_atr_multiplier, reversion_atr_multiplier>>
    ELSE /\ momentum_atr_multiplier' = dynamic_momentum_atr_multiplier(r)
         /\ reversion_atr_multiplier' = dynamic_reversion_atr_multiplier(r)
         /\ algo_body(r, d, dynamic_momentum_atr_multiplier(r), dynamic_reversion_atr_multiplier(r))

dynamic_algo ==
    /\ variant = "dynamic_algo"
    /\ i < MaxBarsHybrid
    /\ \E r \in DynamicHybridRows :
        /\ i' = i + 1
        /\ row' = r
        /\ dynamic_algo_step(r, i + 1)
    /\ UNCHANGED <<variant, rsi_threshold, atr_multiplier, holdings, metric_vars, script_vars, loader_vars>>

(***************************************************************************)
(* The specification.                                                      *)
(***************************************************************************)
\* the number of rows after row 0 of the data of the variant that runs
LastBar == IF variant \in HybridVariants THEN MaxBarsHybrid ELSE MaxBars

\* a start that leaves the 'Asset' column at 0 instead of filling it with the cash
InitUnfilled ==
    /\ variant \in SingleVariants \cup HybridVariants
    /\ rsi_threshold \in RsiThresholds
    /\ atr_multiplier \in (IF variant \in {"momentum_algo", "reversion_algo"}
                           THEN AtrMultipliers ELSE {0})
    /\ momentum_atr_multiplier \in (IF variant = "algo" THEN AtrMultipliers ELSE {0})
    /\ reversion_atr_multiplier \in (IF variant = "algo" THEN AtrMultipliers ELSE {0})
    /\ i = 0
    /\ row = NoRow
    /\ date = 0
    /\ cur_price = 0
    /\ cash = ASSET_VALUE
    /\ holdings = <<>>
    /\ holdings_momentum = <<>>
    /\ holdings_reversion = <<>>
    /\ trading_data = [t \in 0 .. LastBar |-> 0]
    /\ Return = <<>>
    /\ outcome = NotRun
    /\ args = NoArgs
    /\ result = NoTable
    /\ printed = <<>>
    /\ data = <<>>
    /\ in_sample = <<>>
    /\ out_sample = <<>>

Init ==
    /\ variant \in SingleVariants \cup HybridVariants
    /\ rsi_threshold \in RsiThresholds
    /\ atr_multiplier \in (IF variant \in {"momentum_algo", "reversion_algo"}
                           THEN AtrMultipliers ELSE {0})
    /\ momentum_atr_multiplier \in (IF variant = "algo" THEN AtrMultipliers ELSE {0})
    /\ reversion_atr_multiplier \in (IF variant = "algo" THEN AtrMultipliers ELSE {0})
    /\ i = 0
    /\ row = NoRow
    /\ date = 0
    /\ cur_price = 0
    /\ cash = ASSET_VALUE
    /\ holdings = <<>>
    /\ holdings_momentum = <<>>
    /\ holdings_reversion = <<>>
    /\ trading_data = [t \in 0 .. LastBar |-> ASSET_VALUE]
    /\ Return = <<>>
    /\ outcome = NotRun
    /\ args = NoArgs
    /\ result = NoTable
    /\ printed = <<>>
    /\ data = <<>>
    /\ in_sample = <<>>
    /\ out_sample = <<>>

Next ==
    \/ momentum_algo
    \/ dynamic_momentum_algo
    \/ reversion_algo
    \/ dynamic_reversion_algo
    \/ algo
    \/ dynamic_algo

Spec == Init /\ [][Next]_vars

(***************************************************************************)
(* utils.py.  The functions read the 'Return' column of the output table.  *)
(* A float is modelled by an exact fraction <<numerator, denominator>>     *)
(* in lowest terms with a denominator > 0; <<0, 0>> is NaN.                *)
(***************************************************************************)
\* the longest 'Return' column drawn, the leading NaN of pct_change apart
MaxReturns == 3

NaN == <<0, 0>>

Abs(x) == IF x < 0 THEN -x ELSE x

RECURSIVE GCD(_, _)
GCD(a, b) == IF b = 0 THEN a ELSE GCD(b, a % b)

Frac(n, d) ==
    LET g == GCD(Abs(n), Abs(d))
    IN IF d < 0 THEN <<(-n) \div g, (-d) \div g>> ELSE <<n \div g, d \div g>>

\* the common factors are divided out before the products are taken
Times(x, y) ==
    LET g1 == GCD(Abs(x[1]), y[2])
        g2 == GCD(Abs(y[1]), x[2])
    IN Frac((x[1] \div g1) * (y[1] \div g2), (x[2] \div g2) * (y[2] \div g1))

\* x / y for y # 0
Over(x, y) == Times(x, IF y[1] < 0 THEN <<-y[2], -y[1]>> ELSE <<y[2], y[1]>>)

Plus(x, y) ==
    LET g == GCD(x[2], y[2])
    IN Frac(x[1] * (y[2] \div g) + y[1] * (x[2] \div g), x[2] * (y[2] \div g))

Minus(x, y) == Plus(x, <<-y[1], y[2]>>)

Less(x, y) ==
    LET g == GCD(x[2], y[2])
    IN x[1] * (y[2] \div g) < y[1] * (x[2] \div g)

\* `round(x, 6)`: to the nearest multiple of 10^-6, a tie to the even one
round6(x) ==
    LET whole == x[1] \div x[2]
        part == x[1] - whole * x[2]
        q == whole * (10 ^ 6) + (part * (10 ^ 6)) \div x[2]
        rem == (part * (10 ^ 6)) % x[2]
        up == 2 * rem > x[2] \/ (2 * rem = x[2] /\ q % 2 = 1)
    IN Frac(IF up THEN q + 1 ELSE q, 10 ^ 6)

\* the period returns drawn: -1, -2/3, -1/2, 0 and 1
ReturnValues == {<<-1, 1>>, <<-2, 3>>, <<-1, 2>>, <<0, 1>>, <<1, 1>>}

\* the default of the parameter risk_free_return, 0.03093
risk_free_return == <<3093, 100000>>

\* the 'Return' columns drawn: of a table with no row, of tables whose first
\* entry is the NaN of pct_change, and of the table of two rows whose one
\* return is the risk-free return
ReturnColumns ==
    {<<>>, <<NaN, risk_free_return>>}
        \cup {<<NaN>> \o rs : rs \in UNION {[1 .. n -> ReturnValues] : n \in 0 .. MaxReturns}}

isnan(x) == x[2] = 0

\* data['Return'].dropna()
dropna(column) == SelectSeq(column, LAMBDA x : ~isnan(x))

\* `raise ValueError(message)` and `return value`
Error(message) == [kind |-> "error", message |-> message]

Value(value) == [kind |-> "value", value |-> value]

\* a float the model does not compute: the quotient of sharpe_ratio and sortino_ratio
Float == [kind |-> "float"]

\* period_returns.isin([-1]).any()
has_total_loss(period_returns) ==
    \E k \in 1 .. Len(period_returns) : period_returns[k] = <<-1, 1>>

\* round((cur_asset_value / init_asset_value - 1) * 100, 6) of the 'Asset' column
holding_period_returns(asset) ==
    LET cur_asset_value == asset[Len(asset)]
        init_asset_value == asset[1]
    IN round6(Times(Minus(Frac(cur_asset_value, init_asset_value), <<1, 1>>), <<100, 1>>))

\* trading_data['Asset'].pct_change(), for values other than 0
pct_change(asset) ==
    [k \in 1 .. Len(asset) |->
        IF k = 1 THEN NaN ELSE Minus(Frac(asset[k], asset[k - 1]), <<1, 1>>)]

\* a loop whose peak stays where it started
RECURSIVE mdd_loop_fixed_peak(_, _, _, _)
mdd_loop_fixed_peak(period_returns, cur_asset, peak, mdd) ==
    IF period_returns = <<>> THEN mdd
    ELSE LET cur == Times(cur_asset, Plus(<<1, 1>>, Head(period_returns)))
             dd == Minus(Over(cur, peak), <<1, 1>>)
         IN mdd_loop_fixed_peak(Tail(period_returns), cur, peak,
                                IF Less(dd, mdd) THEN dd ELSE mdd)

\* the loop of maximum_drawdown from the state (cur_asset, peak, mdd)
RECURSIVE mdd_loop(_, _, _, _)
mdd_loop(period_returns, cur_asset, peak, mdd) ==
    IF period_returns = <<>> THEN mdd
    ELSE LET cur == Times(cur_asset, Plus(<<1, 1>>, Head(period_returns)))
             pk == IF Less(peak, cur) THEN cur ELSE peak
             dd == Minus(Over(cur, pk), <<1, 1>>)
         IN mdd_loop(Tail(period_returns), cur, pk, IF Less(dd, mdd) THEN dd ELSE mdd)

\* a maximum_drawdown whose peak starts at the first compounded value, not at 1
maximum_drawdown_from_first(column) ==
    LET period_returns == dropna(column)
    IN IF period_returns = <<>> THEN Error("Period returns is empty")
       ELSE IF has_total_loss(period_returns) THEN Error("All capital of the portfolio is lost")
       ELSE Value(round6(Times(mdd_loop(period_returns, <<1, 1>>, <<0, 1>>, <<0, 1>>), <<100, 1>>)))

maximum_drawdown(column) ==
    LET period_returns == dropna(column)
    IN IF period_returns = <<>> THEN Error("Period returns is empty")
       ELSE IF has_total_loss(period_returns) THEN Error("All capital of the portfolio is lost")
       ELSE Value(round6(Times(mdd_loop(period_returns, <<1, 1>>, <<1, 1>>, <<0, 1>>), <<100, 1>>)))

\* the loop of longest_drawdown from the state (cur_asset, peak, count, ldd),
\* and the `ldd = max(ldd, count)` after it
RECURSIVE ldd_loop(_, _, _, _, _)
ldd_loop(period_returns, cur_asset, peak, count, ldd) ==
    IF period_returns = <<>> THEN (IF ldd < count THEN count ELSE ldd)
    ELSE LET cur == Times(cur_asset, Plus(<<1, 1>>, Head(period_returns)))
         IN IF ~Less(cur, peak)
            THEN ldd_loop(Tail(period_returns), cur, cur, 0, IF ldd < count THEN count ELSE ldd)
            ELSE ldd_loop(Tail(period_returns), cur, peak, count + 1, ldd)

\* a loop that resets the count only on a value above the peak
RECURSIVE ldd_loop_new_peak(_, _, _, _, _)
ldd_loop_new_peak(period_returns, cur_asset, peak, count, ldd) ==
    IF period_returns = <<>> THEN (IF ldd < count THEN count ELSE ldd)
    ELSE LET cur == Times(cur_asset, Plus(<<1, 1>>, Head(period_returns)))
         IN IF Less(peak, cur)
            THEN ldd_loop_new_peak(Tail(period_returns), cur, cur, 0, IF ldd < count THEN count ELSE ldd)
            ELSE ldd_loop_new_peak(Tail(period_returns), cur, peak, count + 1, ldd)

longest_drawdown_new_peak(column) ==
    LET period_returns == dropna(column)
    IN IF period_returns = <<>> THEN Error("Period returns is empty")
       ELSE IF has_total_loss(period_returns) THEN Error("All capital of the portfolio is lost")
       ELSE Value(ldd_loop_new_peak(period_returns, <<1, 1>>, <<1, 1>>, 0, 0))

\* a longest_drawdown that does not look for a return of -1
longest_drawdown_unguarded(column) ==
    LET period_returns == dropna(column)
    IN IF period_returns = <<>> THEN Error("Period returns is empty")
       ELSE Value(ldd_loop(period_returns, <<1, 1>>, <<1, 1>>, 0, 0))

longest_drawdown(column) ==
    LET period_returns == dropna(column)
    IN IF period_returns = <<>> THEN Error("Period returns is empty")
       ELSE IF has_total_loss(period_returns) THEN Error("All capital of the portfolio is lost")
       ELSE Value(ldd_loop(period_returns, <<1, 1>>, <<1, 1>>, 0, 0))

\* np.std(period_returns, ddof=1) == 0, in exact arithmetic: two values or
\* more, all equal (one value gives NaN, which is not 0)
std_is_zero(period_returns) ==
    /\ Len(period_returns) >= 2
    /\ \A k \in 1 .. Len(period_returns) : period_returns[k] = period_returns[1]

\* a sharpe_ratio without the test of an empty series
sharpe_ratio_unguarded(column) ==
    LET period_returns == dropna(column)
    IN IF std_is_zero(period_returns) THEN Value(0) ELSE Float

sharpe_ratio(column) ==
    LET period_returns == dropna(column)
    IN IF period_returns = <<>> THEN Error("Period returns is empty")
       ELSE IF std_is_zero(period_returns) THEN Value(0)
       ELSE Float

\* a term of the mean taken to be 0 only for val > risk_free_return
downside_risk_is_zero_strict(period_returns) ==
    \A k \in 1 .. Len(period_returns) : Less(risk_free_return, period_returns[k])

\* downside_risk == 0: every term of the mean is 0.  The term of val is 0 for
\* val > risk_free_return and (val - risk_free_return) ** 2 otherwise, which is
\* 0 for val = risk_free_return
downside_risk_is_zero(period_returns) ==
    \A k \in 1 .. Len(period_returns) :
        \/ Less(risk_free_return, period_returns[k])
        \/ Minus(period_returns[k], risk_free_return) = <<0, 1>>

sortino_ratio(column) ==
    LET period_returns == dropna(column)
    IN IF period_returns = <<>> THEN Error("Period returns is empty")
       ELSE IF downside_risk_is_zero(period_returns) THEN Value(0)
       ELSE Float

(***************************************************************************)
(* backtest.py, __main__: the calls of the four functions on a table.      *)
(***************************************************************************)
trading_vars == <<variant, rsi_threshold, atr_multiplier, i, row, date, cur_price,
                  cash, holdings, holdings_momentum, holdings_reversion,
                  momentum_atr_multiplier, reversion_atr_multiplier, trading_data>>

max_dd ==
    /\ outcome' = [metric |-> "maximum_drawdown", result |-> maximum_drawdown(Return)]
    /\ UNCHANGED <<trading_vars, Return, script_vars, loader_vars>>

ldd ==
    /\ outcome' = [metric |-> "longest_drawdown", result |-> longest_drawdown(Return)]
    /\ UNCHANGED <<trading_vars, Return, script_vars, loader_vars>>

sharpe ==
    /\ outcome' = [metric |-> "sharpe_ratio", result |-> sharpe_ratio(Return)]
    /\ UNCHANGED <<trading_vars, Return, script_vars, loader_vars>>

sortino ==
    /\ outcome' = [metric |-> "sortino_ratio", result |-> sortino_ratio(Return)]
    /\ UNCHANGED <<trading_vars, Return, script_vars, loader_vars>>

\* a table whose 'Return' column is any of ReturnColumns
MetricsInit ==
    /\ variant = "utils"
    /\ rsi_threshold = 0
    /\ atr_multiplier = 0
    /\ momentum_atr_multiplier = 0
    /\ reversion_atr_multiplier = 0
    /\ i = 0
    /\ row = NoRow
    /\ date = 0
    /\ cur_price = 0
    /\ cash = ASSET_VALUE
    /\ holdings = <<>>
    /\ holdings_momentum = <<>>
    /\ holdings_reversion = <<>>
    /\ trading_data = [t \in 0 .. 0 |-> ASSET_VALUE]
    /\ Return \in ReturnColumns
    /\ outcome = NotRun
    /\ args = NoArgs
    /\ result = NoTable
    /\ printed = <<>>
    /\ data = <<>>
    /\ in_sample = <<>>
    /\ out_sample = <<>>

MetricsNext ==
    \/ max_dd
    \/ ldd
    \/ sharpe
    \/ sortino

MetricsSpec == MetricsInit /\ [][MetricsNext]_vars

(***************************************************************************)
(* backtest.py, __main__: the command line selects the algorithm, the      *)
(* algorithm returns a table, and the report prints the holding-period     *)
(* return and then the four metrics, each in a try block of its own.  The  *)
(* run of the algorithm is the loop modelled above; here the table it      *)
(* returns is any of AssetTables.                                          *)
(***************************************************************************)
\* the most rows of a returned table
MaxRows == 3

\* the 'Asset' cells drawn: the first row holds the initial capital, and a
\* cell of 0 (all capital lost) is the last one
AssetValues == {0, ASSET_VALUE \div 2, ASSET_VALUE, 2 * ASSET_VALUE}

AssetColumns ==
    {<<>>} \cup
    {asset \in UNION {[1 .. n -> AssetValues] : n \in 1 .. MaxRows} :
        /\ asset[1] = ASSET_VALUE
        /\ \A k \in 1 .. Len(asset) - 1 : asset[k] # 0}

\* trading_data with its 'Return' column: line 161 and line 326
AssetTables == {[Asset |-> asset, Return |-> pct_change(asset)] : asset \in AssetColumns}

\* a printed line: what it is about, and the value or the error shown
Line(label, shown) == [label |-> label, shown |-> shown]

\* the uncaught exception of holding_period_returns on a table with no row
Traceback == Line("Traceback", Error("IndexError"))

\* an uncaught exception has ended the script
aborted == printed # <<>> /\ printed[Len(printed)].label = "Traceback"

script_rest == <<rsi_threshold, atr_multiplier, i, row, date, cur_price, cash, holdings,
                 hybrid_vars, trading_data, metric_vars, loader_vars>>

\* "Run selected algorithm"
run_selected_algorithm ==
    /\ variant = "__main__"
    /\ variant' = IF args.dynamic = "true" THEN "algo" ELSE "dynamic_algo"
    /\ result' \in AssetTables
    /\ UNCHANGED <<args, printed, script_rest>>

\* hpr = holding_period_returns(result), outside of any try block
report_hpr ==
    /\ variant # "__main__"
    /\ printed = <<>>
    /\ printed' = IF result.Asset = <<>>
                  THEN <<Traceback>>
                  ELSE <<Line("Holding Period Return", Value(holding_period_returns(result.Asset)))>>
    /\ UNCHANGED <<variant, args, result, script_rest>>

\* the k-th line of the report is printed next
reporting(k) == variant # "__main__" /\ Len(printed) = k - 1 /\ ~aborted

report_max_dd ==
    /\ reporting(2)
    /\ printed' = Append(printed, Line("Maximum Drawdown", maximum_drawdown(result.Return)))
    /\ UNCHANGED <<variant, args, result, script_rest>>

\* a report whose second metric is computed outside of a try block: its error
\* is not caught, and the script ends there
report_ldd_uncaught ==
    /\ reporting(3)
    /\ printed' = Append(printed, IF longest_drawdown(result.Return).kind = "error"
                                  THEN Line("Traceback", longest_drawdown(result.Return))
                                  ELSE Line("Longest Drawdown", longest_drawdown(result.Return)))
    /\ UNCHANGED <<variant, args, result, script_rest>>

report_ldd ==
    /\ reporting(3)
    /\ printed' = Append(printed, Line("Longest Drawdown", longest_drawdown(result.Return)))
    /\ UNCHANGED <<variant, args, result, script_rest>>

report_sharpe ==
    /\ reporting(4)
    /\ printed' = Append(printed, Line("Sharpe Ratio", sharpe_ratio(result.Return)))
    /\ UNCHANGED <<variant, args, result, script_rest>>

report_sortino ==
    /\ reporting(5)
    /\ printed' = Append(printed, Line("Sortino Ratio", sortino_ratio(result.Return)))
    /\ UNCHANGED <<variant, args, result, script_rest>>

\* args = parser.parse_args(), with --dynamic one of its two choices
MainInit ==
    /\ variant = "__main__"
    /\ rsi_threshold = 0
    /\ atr_multiplier = 0
    /\ momentum_atr_multiplier = 0
    /\ reversion_atr_multiplier = 0
    /\ i = 0
    /\ row = NoRow
    /\ date = 0
    /\ cur_price = 0
    /\ cash = ASSET_VALUE
    /\ holdings = <<>>
    /\ holdings_momentum = <<>>
    /\ holdings_reversion = <<>>
    /\ trading_data = [t \in 0 .. 0 |-> ASSET_VALUE]
    /\ Return = <<>>
    /\ outcome = NotRun
    /\ args \in [dynamic : {"true", "false"}]
    /\ result = NoTable
    /\ printed = <<>>
    /\ data = <<>>
    /\ in_sample = <<>>
    /\ out_sample = <<>>

MainNext ==
    \/ run_selected_algorithm
    \/ report_hpr
    \/ report_max_dd
    \/ report_ldd
    \/ report_sharpe
    \/ report_sortino

MainSpec == MainInit /\ [][MainNext]_vars

(***************************************************************************)
(* data_loader.py: process_split_data.  A table is the sequence of its     *)
(* rows; a row has its timestamp, its four prices and the set `na` of its  *)
(* missing cells.  The raw table has every required column.                *)
(***************************************************************************)
\* the most rows of a raw table
MaxRawRows == 3

Timestamps == 1 .. 3

\* pd.Timestamp(split_date)
split_timestamp == 2

required_columns == {"Open", "High", "Low", "Close"}

\* the rows drawn: the Close is one of two values, the Open is given or missing
RawRows ==
    {[Time |-> t, Open |-> IF na = {} THEN 10 ELSE 0, High |-> 11, Low |-> 10,
      Close |-> c, na |-> na] :
        t \in Timestamps, c \in {10, 11}, na \in {{}, {"Open"}}}

RawTables == UNION {[1 .. n -> RawRows] : n \in 0 .. MaxRawRows}

\* data.sort_values('Time'): the rows in non-decreasing order of Time.  The
\* default sort is not stable: rows of equal Time come in any order
sort_values(table) ==
    LET n == Len(table)
        orders == {f \in [1 .. n -> 1 .. n] :
                      /\ \A j, k \in 1 .. n : j # k => f[j] # f[k]
                      /\ \A j, k \in 1 .. n : j < k => table[f[j]].Time <= table[f[k]].Time}
    IN {[k \in 1 .. n |-> table[f[k]]] : f \in orders}

\* the cells that drop_duplicates compares once 'Time' is the index: the
\* columns, not the index
columns(r) == [Open |-> r.Open, High |-> r.High, Low |-> r.Low, Close |-> r.Close, na |-> r.na]

\* data.drop_duplicates(): of the rows of equal columns the first is kept
RECURSIVE drop_duplicates_seen(_, _)
drop_duplicates_seen(table, seen) ==
    IF table = <<>> THEN <<>>
    ELSE IF columns(Head(table)) \in seen
    THEN drop_duplicates_seen(Tail(table), seen)
    ELSE <<Head(table)>> \o drop_duplicates_seen(Tail(table), seen \cup {columns(Head(table))})

drop_duplicates(table) == drop_duplicates_seen(table, {})

\* data.dropna(subset=[...])
dropna_subset(table, subset) == SelectSeq(table, LAMBDA r : r.na \cap subset = {})

\* a split that puts the rows of split_date itself in the in-sample table
process_split_data_through ==
    /\ variant = "process_split_data"
    /\ \E sorted \in sort_values(data) :
        LET cleaned == dropna_subset(drop_duplicates(sorted), required_columns)
        IN /\ in_sample' = SelectSeq(cleaned, LAMBDA r : r.Time <= split_timestamp)
           /\ out_sample' = SelectSeq(cleaned, LAMBDA r : r.Time > split_timestamp)
    /\ variant' = "returned"
    /\ UNCHANGED <<rsi_threshold, atr_multiplier, i, row, date, cur_price, cash, holdings,
                   hybrid_vars, trading_data, metric_vars, script_vars, data>>

process_split_data ==
    /\ variant = "process_split_data"
    /\ \E sorted \in sort_values(data) :
        LET cleaned == dropna_subset(drop_duplicates(sorted), required_columns)
        IN /\ in_sample' = SelectSeq(cleaned, LAMBDA r : r.Time < split_timestamp)
           /\ out_sample' = SelectSeq(cleaned, LAMBDA r : r.Time >= split_timestamp)
    /\ variant' = "returned"
    /\ UNCHANGED <<rsi_threshold, atr_multiplier, i, row, date, cur_price, cash, holdings,
                   hybrid_vars, trading_data, metric_vars, script_vars, data>>

\* process_split_data is called on a raw table
LoaderInit ==
    /\ variant = "process_split_data"
    /\ rsi_threshold = 0
    /\ atr_multiplier = 0
    /\ momentum_atr_multiplier = 0
    /\ reversion_atr_multiplier = 0
    /\ i = 0
    /\ row = NoRow
    /\ date = 0
    /\ cur_price = 0
    /\ cash = ASSET_VALUE
    /\ holdings = <<>>
    /\ holdings_momentum = <<>>
    /\ holdings_reversion = <<>>
    /\ trading_data = [t \in 0 .. 0 |-> ASSET_VALUE]
    /\ Return = <<>>
    /\ outcome = NotRun
    /\ args = NoArgs
    /\ result = NoTable
    /\ printed = <<>>
    /\ data \in RawTables
    /\ in_sample = <<>>
    /\ out_sample = <<>>

LoaderNext == process_split_data

LoaderSpec == LoaderInit /\ [][LoaderNext]_vars

(***************************************************************************)
(* The trend-difference columns: ta.trend.macd_diff as the six functions   *)
(* call it on data['Close'].  An exponential mean of span w weighs the     *)
(* newest value by 2 / (w + 1) (adjust=False) and shows NaN until it has   *)
(* seen w values (min_periods = w).                                        *)
(***************************************************************************)
\* the most rows of the price table
MaxCloses == 4

\* series.ewm(span=span, adjust=False).mean() at k, for a series whose NaN are leading
RECURSIVE ewm(_, _, _)
ewm(series, span, k) ==
    IF isnan(series[k]) THEN NaN
    ELSE IF k = 1 \/ isnan(series[k - 1]) THEN series[k]
    ELSE Plus(Times(Frac(span - 1, span + 1), ewm(series, span, k - 1)),
              Times(Frac(2, span + 1), series[k]))

\* ta.trend.macd_diff(close, window_slow, window_fast, window_sign): the fast
\* mean less the slow mean, less the signal mean of that difference
macd_diff(close, window_slow, window_fast, window_sign) ==
    LET seen(series, k) == Cardinality({j \in 1 .. k : ~isnan(series[j])})
        ema(series, periods) ==
            [k \in 1 .. Len(series) |->
                IF seen(series, k) < periods THEN NaN ELSE ewm(series, periods, k)]
        less(x, y) ==
            [k \in 1 .. Len(x) |->
                IF isnan(x[k]) \/ isnan(y[k]) THEN NaN ELSE Minus(x[k], y[k])]
        emafast == ema(close, window_fast)
        emaslow == ema(close, window_slow)
        macd == less(emafast, emaslow)
    IN less(macd, ema(macd, window_sign))

\* optimize.py, "Calculate technical indicators" of the four functions: the
\* keyword window_slow is given fast_ema_window and window_fast slow_ema_window
single_strategy_indicators ==
    /\ variant \in SingleVariants
    /\ \A k \in 1 .. Len(data) : DOMAIN data[k] = {"Close"}
    /\ LET close == [k \in 1 .. Len(data) |-> <<data[k].Close, 1>>]
           column == macd_diff(close, args.fast_ema_window, args.slow_ema_window,
                               args.ema_signal_window)
       IN data' = [k \in 1 .. Len(data) |-> [Close |-> data[k].Close, MACD_diff |-> column[k]]]
    /\ UNCHANGED <<trading_vars, metric_vars, script_vars, in_sample, out_sample>>

\* backtest.py, "Calculate technical indicators" of algo and dynamic_algo,
\* for Momentum and for Mean Reversion
hybrid_indicators ==
    /\ variant \in HybridVariants
    /\ \A k \in 1 .. Len(data) : DOMAIN data[k] = {"Close"}
    /\ LET close == [k \in 1 .. Len(data) |-> <<data[k].Close, 1>>]
           mom == macd_diff(close, args.momentum_slow_ema, args.momentum_fast_ema,
                            args.momentum_signal_ema)
           rev == macd_diff(close, args.reversion_slow_ema, args.reversion_fast_ema,
                            args.reversion_signal_ema)
       IN data' = [k \in 1 .. Len(data) |->
                      [Close |-> data[k].Close, MACD_diff_mom |-> mom[k],
                       MACD_diff_rev |-> rev[k]]]
    /\ UNCHANGED <<trading_vars, metric_vars, script_vars, in_sample, out_sample>>

\* one of the six functions is called on a table of prices with its windows,
\* a fast window no longer than the slow one
IndicatorInit ==
    /\ variant \in SingleVariants \cup HybridVariants
    /\ rsi_threshold = 0
    /\ atr_multiplier = 0
    /\ momentum_atr_multiplier = 0
    /\ reversion_atr_multiplier = 0
    /\ i = 0
    /\ row = NoRow
    /\ date = 0
    /\ cur_price = 0
    /\ cash = ASSET_VALUE
    /\ holdings = <<>>
    /\ holdings_momentum = <<>>
    /\ holdings_reversion = <<>>
    /\ trading_data = [t \in 0 .. 0 |-> ASSET_VALUE]
    /\ Return = <<>>
    /\ outcome = NotRun
    /\ args \in IF variant \in SingleVariants
                THEN [fast_ema_window : {1, 2}, slow_ema_window : {2, 3},
                      ema_signal_window : {2}]
                ELSE [momentum_fast_ema : {1, 2}, momentum_slow_ema : {2, 3},
                      momentum_signal_ema : {2},
                      reversion_fast_ema : {1, 2}, reversion_slow_ema : {2, 3},
                      reversion_signal_ema : {2}]
    /\ result = NoTable
    /\ printed = <<>>
    /\ data \in UNION {[1 .. n -> [Close : Prices]] : n \in 1 .. MaxCloses}
    /\ in_sample = <<>>
    /\ out_sample = <<>>

IndicatorNext ==
    \/ single_strategy_indicators
    \/ hybrid_indicators

IndicatorSpec == IndicatorInit /\ [][IndicatorNext]_vars

(***************************************************************************)
(* optimize.py, __main__ and the four exhaustive sweeps.  Line 6 imports   *)
(* the module tqdm (`import tqdm`), and the for statement of every sweep   *)
(* calls that name: `tqdm(enumerate(param_combinations), ...)`.  A module  *)
(* is not callable, so the for statement raises TypeError before its first *)
(* iteration: no combination is run, no metric is computed, the table      *)
(* preallocated is lost with the frame and the script ends in a traceback. *)
(***************************************************************************)
\* the sweep --algo selects: the combinations are listed, the table is
\* preallocated, and the for statement raises
optimize(choice) ==
    /\ variant = "optimize"
    /\ args.algo = choice
    /\ printed = <<>>
    /\ printed' = <<Line("Traceback", Error("TypeError: 'module' object is not callable"))>>
    /\ UNCHANGED <<trading_vars, metric_vars, args, result, loader_vars>>

\* args = parser.parse_args() and data = pd.read_csv(args.data, ...)
SweepInit ==
    /\ variant = "optimize"
    /\ rsi_threshold = 0
    /\ atr_multiplier = 0
    /\ momentum_atr_multiplier = 0
    /\ reversion_atr_multiplier = 0
    /\ i = 0
    /\ row = NoRow
    /\ date = 0
    /\ cur_price = 0
    /\ cash = ASSET_VALUE
    /\ holdings = <<>>
    /\ holdings_momentum = <<>>
    /\ holdings_reversion = <<>>
    /\ trading_data = [t \in 0 .. 0 |-> ASSET_VALUE]
    /\ Return = <<>>
    /\ outcome = NotRun
    /\ args \in [algo : {"static_momentum", "dynamic_momentum",
                         "static_reversion", "dynamic_reversion"}]
    /\ result = NoTable
    /\ printed = <<>>
    /\ data \in UNION {[1 .. n -> [Close : Prices]] : n \in 0 .. MaxCloses}
    /\ in_sample = <<>>
    /\ out_sample = <<>>

SweepNext ==
    \/ optimize("static_momentum")
    \/ optimize("dynamic_momentum")
    \/ optimize("static_reversion")
    \/ optimize("dynamic_reversion")

SweepSpec == SweepInit /\ [][SweepNext]_vars

(***************************************************************************)
(* Vocabulary of the properties.  These definitions restate sections 3 and *)
(* 4 of the specification; they use none of the operators of the loops.    *)
(***************************************************************************)
Tracks == IF variant \in HybridVariants THEN {"momentum", "reversion"} ELSE {"single"}

\* the open positions of a track
TrackHoldings(t) ==
    CASE t = "momentum" -> holdings_momentum
      [] t = "reversion" -> holdings_reversion
      [] OTHER -> holdings

IsMomentum(t) ==
    t = "momentum" \/ (t = "single" /\ variant \in {"momentum_algo", "dynamic_momentum_algo"})

AllHoldings == holdings \o holdings_momentum \o holdings_reversion

Range(seq) == {seq[k] : k \in 1 .. Len(seq)}

\* the readings of track t in row r
TrendDifference(r, t) ==
    CASE t = "momentum" -> r.MACD_diff_mom [] t = "reversion" -> r.MACD_diff_rev [] OTHER -> r.MACD_diff

Oscillator(r, t) ==
    CASE t = "momentum" -> r.RSI_mom [] t = "reversion" -> r.RSI_rev [] OTHER -> r.RSI

Volatility(r, t) ==
    CASE t = "momentum" -> r.ATR_mom [] t = "reversion" -> r.ATR_rev [] OTHER -> r.ATR

\* section 4.1: the entry decisions
EnterLong(r, t) ==
    IF IsMomentum(t)
    THEN TrendDifference(r, t) > 0 /\ 50 < Oscillator(r, t) /\ Oscillator(r, t) < 100 - rsi_threshold
    ELSE TrendDifference(r, t) > 0 /\ Oscillator(r, t) < 30

EnterShort(r, t) ==
    IF IsMomentum(t)
    THEN TrendDifference(r, t) < 0 /\ rsi_threshold < Oscillator(r, t) /\ Oscillator(r, t) < 50
    ELSE TrendDifference(r, t) < 0 /\ Oscillator(r, t) > 70

Side(p) == IF p[2] = "LONG" THEN 1 ELSE -1

\* sum of side * quantity * amount over a list of positions
RECURSIVE SignedQuantity(_)
SignedQuantity(ps) ==
    IF ps = <<>> THEN 0 ELSE Side(Head(ps)) * Head(ps)[4] + SignedQuantity(Tail(ps))

RECURSIVE Contracts(_)
Contracts(ps) == IF ps = <<>> THEN 0 ELSE Head(ps)[4] + Contracts(Tail(ps))

\* sum of side * quantity * entry_price
RECURSIVE SignedEntryValue(_)
SignedEntryValue(ps) ==
    IF ps = <<>> THEN 0 ELSE Side(Head(ps)) * Head(ps)[4] * Head(ps)[3] + SignedEntryValue(Tail(ps))

\* a step reads one more row
Bar == i' = i + 1

\* ... and the row has every required reading
ProcessedBar == Bar /\ row'.na = {}

SkippedBar == Bar /\ row'.na # {}

\* the positions of track t closed, kept and opened by the step
ClosedOf(t) == SelectSeq(TrackHoldings(t), LAMBDA p : p \notin Range(TrackHoldings(t)'))

KeptOf(t) == SelectSeq(TrackHoldings(t), LAMBDA p : p \in Range(TrackHoldings(t)'))

OpenedOf(t) == SelectSeq(TrackHoldings(t)', LAMBDA p : p \notin Range(TrackHoldings(t)))

Closed == ClosedOf("single") \o ClosedOf("momentum") \o ClosedOf("reversion")

Opened == OpenedOf("single") \o OpenedOf("momentum") \o OpenedOf("reversion")

\* section 4.3: the cash after the exits of the bar, before its entries
CashAfterExits ==
    cash + SignedQuantity(Closed) * row'.Close * price_multiplier
         - Contracts(Closed) * TAX_MULTIPLIER

\* section 4.2: floor(available_capital / (price * price_multiplier)), the
\* available capital being half of the cash after the exits
Affordable == CashAfterExits \div (2 * row'.Close * price_multiplier)

(***************************************************************************)
(* C1.  In every variant a track holds at most one open position after any *)
(* sequence of bars: an entry is evaluated only when the holdings list of  *)
(* the track is empty.                                                     *)
(***************************************************************************)
C1_AtMostOnePosition ==
    /\ Len(holdings) <= 1
    /\ Len(holdings_momentum) <= 1
    /\ Len(holdings_reversion) <= 1

\* a momentum track keeps the position of an earlier bar on a processed bar
\* whose readings give an entry signal
C1_Witness ==
    /\ i >= 2 /\ date = i /\ row.na = {}
    /\ \E t \in Tracks :
        /\ IsMomentum(t)
        /\ Len(TrackHoldings(t)) = 1
        /\ TrackHoldings(t)[1][1] < i
        /\ (EnterLong(row, t) \/ EnterShort(row, t))

(***************************************************************************)
(* C2.  The asset value recorded for a processed bar equals the cash plus  *)
(* the signed current notional (+ for LONG, - for SHORT) of all positions  *)
(* open on all tracks at the end of that bar: the value recorded before    *)
(* the entries of the bar is also the value after them.                    *)
(***************************************************************************)
C2_AssetIsCashPlusNotional ==
    date > 0 =>
        trading_data[date] = cash + SignedQuantity(AllHoldings) * cur_price * price_multiplier

\* both tracks of the hybrid opened a position on the bar just processed, one
\* of them a SHORT
C2_Witness ==
    /\ variant \in HybridVariants
    /\ date = i
    /\ Len(holdings_momentum) = 1 /\ holdings_momentum[1][1] = i
    /\ Len(holdings_reversion) = 1 /\ holdings_reversion[1][1] = i
    /\ holdings_momentum[1][2] = "SHORT"

(***************************************************************************)
(* C3.  Every SHORT entry of every variant opens with quantity             *)
(* min(floor(available_capital / (price * price_multiplier)), 3): no SHORT *)
(* position of more than 3 contracts is ever open.                         *)
(***************************************************************************)
C3_ShortCap ==
    \A p \in Range(AllHoldings) : p[2] = "SHORT" => p[4] <= 3

(***************************************************************************)
(* C4.  Within one bar the exits of a track are applied before its entry   *)
(* is evaluated: a track whose only position is closed on a bar whose      *)
(* readings give an entry signal, with an affordable quantity > 0, holds a *)
(* new position at the end of that same bar, sized from the cash after the *)
(* exits.                                                                  *)
(***************************************************************************)
C4_TrackReopens(t) ==
    LET before == TrackHoldings(t)
        after == TrackHoldings(t)'
    IN (/\ ProcessedBar
        /\ Len(before) = 1
        /\ before[1] \notin Range(after)
        /\ (EnterLong(row', t) \/ EnterShort(row', t))
        /\ Affordable > 0)
       => /\ Len(after) = 1
          /\ after[1][1] = i'
          /\ after[1][3] = row'.Close
          /\ after[1][2] = (IF EnterLong(row', t) THEN "LONG" ELSE "SHORT")
          /\ IF EnterLong(row', t)
             THEN after[1][4] = Affordable
             ELSE after[1][4] \in {Affordable, IF Affordable < 3 THEN Affordable ELSE 3}

C4_ExitsBeforeEntries ==
    [][\A t \in Tracks : C4_TrackReopens(t)]_vars

\* bar 2 closed the position of bar 1 (the asset value has moved) and the
\* track holds a position opened on bar 2
C4_Witness ==
    /\ variant \in SingleVariants
    /\ i = 2 /\ date = 2
    /\ Len(holdings) = 1 /\ holdings[1][1] = 2
    /\ trading_data[2] # ASSET_VALUE

(***************************************************************************)
(* C5.  Round trip of one position with no other cash movement in between: *)
(* a LONG of q contracts opened at p0 and closed at p1 leaves              *)
(* cash_before - q*p0*price_multiplier + q*p1*price_multiplier             *)
(* - q*TAX*MULTIPLIER, a SHORT the same with the two notionals negated;    *)
(* the tax is charged once, on the close.  Every bar moves the cash by the *)
(* closes and the opens of that bar and by nothing else.                   *)
(***************************************************************************)
C5_Ledger ==
    ProcessedBar =>
        cash' = cash + SignedQuantity(Closed) * row'.Close * price_multiplier
                     - Contracts(Closed) * TAX_MULTIPLIER
                     - SignedEntryValue(Opened) * price_multiplier

\* the position p of track t is closed and nothing else is open before or after;
\* the asset value of its entry bar is the cash before it was opened
C5_TrackRoundTrip(t) ==
    LET before == TrackHoldings(t)
        p == before[1]
    IN (/\ ProcessedBar
        /\ AllHoldings = before
        /\ Len(before) = 1
        /\ AllHoldings' = <<>>
        /\ (variant \in SingleVariants \/ p[1] = date))
       => cash' = trading_data[p[1]]
                  - Side(p) * p[4] * p[3] * price_multiplier
                  + Side(p) * p[4] * row'.Close * price_multiplier
                  - p[4] * TAX_MULTIPLIER

C5_RoundTrip ==
    [][C5_Ledger /\ \A t \in Tracks : C5_TrackRoundTrip(t)]_vars

\* a LONG of 11 contracts bought at 400 with the initial capital was sold at 4600
C5_Witness ==
    /\ AllHoldings = <<>>
    /\ cash = ASSET_VALUE - 11 * 400 * price_multiplier + 11 * 4600 * price_multiplier
              - 11 * TAX_MULTIPLIER

(***************************************************************************)
(* C6.  Between two consecutive processed bars the recorded asset value    *)
(* changes by the true profit and loss: side * quantity * price_multiplier *)
(* * (price(t) - price(t-1)) summed over the positions open at the end of  *)
(* bar t-1, minus quantity * TAX * MULTIPLIER for each position closed on  *)
(* bar t.                                                                  *)
(***************************************************************************)
C6_AssetChangeIsPnL ==
    [][(ProcessedBar /\ date > 0) =>
          trading_data'[i'] - trading_data[date]
            = SignedQuantity(AllHoldings) * price_multiplier * (row'.Close - cur_price)
              - Contracts(Closed) * TAX_MULTIPLIER]_vars

\* a position of an earlier bar is carried over a bar with another price
C6_Witness ==
    /\ date = i
    /\ \E p \in Range(AllHoldings) : p[1] < i /\ p[3] # cur_price

(***************************************************************************)
(* C7.  Every position ever created has quantity > 0 and levels strictly   *)
(* ordered around the entry price: stop_loss < entry_price < take_profit   *)
(* for a LONG, take_profit < entry_price < stop_loss for a SHORT, for any  *)
(* defined volatility reading on the entry bar.                            *)
(***************************************************************************)
C7_LevelsOrdered ==
    \A p \in Range(AllHoldings) :
        /\ p[4] > 0
        /\ IF p[2] = "LONG" THEN p[5] < p[3] /\ p[3] < p[6]
                            ELSE p[6] < p[3] /\ p[3] < p[5]

(***************************************************************************)
(* C8.  From the bar a position is opened until the bar it is closed its   *)
(* side, entry price, quantity, stop_loss and take_profit never change: a  *)
(* position of the holdings after a step is a position of the holdings     *)
(* before it, or was opened on the bar of the step with the levels of that *)
(* bar's volatility reading and that bar's multiplier.                     *)
(***************************************************************************)
BarMultiplier(t) ==
    CASE t = "momentum" -> momentum_atr_multiplier
      [] t = "reversion" -> reversion_atr_multiplier
      [] OTHER -> atr_multiplier

C8_TrackFrame(t) ==
    \A p \in Range(TrackHoldings(t)') :
        \/ p \in Range(TrackHoldings(t))
        \/ /\ ProcessedBar
           /\ p[1] = i'
           /\ p[3] = row'.Close
           /\ 10 * (p[6] - p[3]) = Side(p) * Volatility(row', t) * BarMultiplier(t)'
           /\ 10 * (p[3] - p[5]) = Side(p) * Volatility(row', t) * BarMultiplier(t)'

C8_PositionsImmutable ==
    [][\A t \in {"single", "momentum", "reversion"} : C8_TrackFrame(t)]_vars

\* a LONG opened with the multiplier 2.0 (its take_profit is 2 * 2800 above its
\* entry) is carried over a bar on which the multiplier is 1.5
C8_Witness ==
    /\ variant = "dynamic_momentum_algo"
    /\ date = i
    /\ atr_multiplier = 15
    /\ Len(holdings) = 1
    /\ holdings[1][1] < i
    /\ holdings[1][6] - holdings[1][3] = 5600

(***************************************************************************)
(* C9.  On a bar where a required indicator value is undefined the bar is  *)
(* skipped: no exit and no entry is evaluated, the cash and the open       *)
(* positions are unchanged, and the asset value reported for that bar is   *)
(* the asset value of the bar before it, wherever the undefined reading is *)
(* in the series.                                                          *)
(***************************************************************************)
C9_SkippedBarKeepsPriorValue ==
    [][SkippedBar =>
          /\ cash' = cash
          /\ AllHoldings' = AllHoldings
          /\ trading_data'[i'] = trading_data'[i]]_vars

(***************************************************************************)
(* C10.  Momentum entry.  On a processed bar with the momentum track flat  *)
(* after the exits, a LONG is opened exactly when trend-difference > 0 and *)
(* 50 < oscillator < 100 - threshold and the computed quantity is > 0; a   *)
(* SHORT exactly when trend-difference < 0 and threshold < oscillator < 50 *)
(* and the computed quantity is > 0.  The bounds are strict and the two    *)
(* conditions are never both true.                                         *)
(***************************************************************************)
C10_Track(t) ==
    LET macd == TrendDifference(row', t)
        rsi == Oscillator(row', t)
        long == macd > 0 /\ 50 < rsi /\ rsi < 100 - rsi_threshold
        short == macd < 0 /\ rsi_threshold < rsi /\ rsi < 50
        opened == Range(OpenedOf(t))
    IN (ProcessedBar /\ IsMomentum(t) /\ KeptOf(t) = <<>>)
       => /\ (\E p \in opened : p[2] = "LONG") <=> (long /\ Affordable > 0)
          /\ (\E p \in opened : p[2] = "SHORT") <=> (short /\ Affordable > 0)
          /\ ~(long /\ short)

C10_MomentumEntry ==
    [][\A t \in Tracks : C10_Track(t)]_vars

\* the oscillator is exactly 50 on a bar whose trend-difference is positive and
\* whose price is affordable: the flat momentum track opens nothing
C10_Witness ==
    /\ variant \in {"momentum_algo", "dynamic_momentum_algo"}
    /\ date = i /\ i > 0 /\ row.na = {}
    /\ row.RSI = 50 /\ row.MACD_diff > 0 /\ row.Close = 400
    /\ cash = ASSET_VALUE
    /\ holdings = <<>>

(***************************************************************************)
(* C11.  Momentum exit.  On a processed bar an open momentum LONG is       *)
(* closed if and only if price >= take_profit, or price <= stop_loss, or   *)
(* oscillator >= 100 - threshold, or trend-difference < 0; an open         *)
(* momentum SHORT if and only if price <= take_profit, or price >=         *)
(* stop_loss, or oscillator <= threshold, or trend-difference > 0.         *)
(* Equality closes; a position none of whose conditions holds is kept.     *)
(***************************************************************************)
C11_MustClose(p, t) ==
    IF p[2] = "LONG"
    THEN \/ row'.Close >= p[6]
         \/ row'.Close <= p[5]
         \/ Oscillator(row', t) >= 100 - rsi_threshold
         \/ TrendDifference(row', t) < 0
    ELSE \/ row'.Close <= p[6]
         \/ row'.Close >= p[5]
         \/ Oscillator(row', t) <= rsi_threshold
         \/ TrendDifference(row', t) > 0

C11_MomentumExit ==
    [][ProcessedBar =>
          \A t \in Tracks : IsMomentum(t) =>
              \A p \in Range(TrackHoldings(t)) :
                  (p \in Range(ClosedOf(t))) <=> C11_MustClose(p, t)]_vars

\* the LONG of 11 contracts bought at 400 on bar 1 was sold at 400 on bar 2,
\* whose oscillator is exactly 100 - threshold and whose trend-difference is > 0
C11_Witness ==
    /\ variant = "momentum_algo"
    /\ i = 2 /\ date = 2
    /\ row.Close = 400 /\ row.MACD_diff > 0 /\ row.RSI = 100 - rsi_threshold
    /\ holdings = <<>>
    /\ cash = ASSET_VALUE - 11 * TAX_MULTIPLIER

(***************************************************************************)
(* C12.  Reversion SHORT exit.  In every reversion variant and track an    *)
(* open SHORT is closed on a processed bar if and only if price <=         *)
(* take_profit, or price >= stop_loss, or oscillator >= 50, or             *)
(* trend-difference > 0: the oscillator bound of the SHORT side is the     *)
(* bound of the LONG side.                                                 *)
(***************************************************************************)
C12_ReversionShortExit ==
    [][ProcessedBar =>
          \A t \in Tracks : ~IsMomentum(t) =>
              \A p \in Range(TrackHoldings(t)) :
                  p[2] = "SHORT" =>
                      ((p \in Range(ClosedOf(t))) <=>
                          \/ row'.Close <= p[6]
                          \/ row'.Close >= p[5]
                          \/ Oscillator(row', t) >= 50
                          \/ TrendDifference(row', t) > 0)]_vars

(***************************************************************************)
(* C13.  Reversion entry and LONG exit.  With the reversion track flat, a  *)
(* LONG is opened exactly when trend-difference > 0 and oscillator < 30    *)
(* and the quantity is > 0, a SHORT exactly when trend-difference < 0 and  *)
(* oscillator > 70 and the quantity is > 0; an open reversion LONG is      *)
(* closed if and only if price >= take_profit, or price <= stop_loss, or   *)
(* oscillator >= 50, or trend-difference < 0.                              *)
(***************************************************************************)
C13_Track(t) ==
    LET macd == TrendDifference(row', t)
        rsi == Oscillator(row', t)
        opened == Range(OpenedOf(t))
    IN /\ KeptOf(t) = <<>> =>
            /\ (\E p \in opened : p[2] = "LONG") <=> (macd > 0 /\ rsi < 30 /\ Affordable > 0)
            /\ (\E p \in opened : p[2] = "SHORT") <=> (macd < 0 /\ rsi > 70 /\ Affordable > 0)
       /\ \A p \in Range(TrackHoldings(t)) :
            p[2] = "LONG" =>
                ((p \in Range(ClosedOf(t))) <=>
                    \/ row'.Close >= p[6]
                    \/ row'.Close <= p[5]
                    \/ rsi >= 50
                    \/ macd < 0)

C13_ReversionEntryAndLongExit ==
    [][ProcessedBar => \A t \in Tracks : ~IsMomentum(t) => C13_Track(t)]_vars

\* the LONG of 11 contracts bought at 400 on bar 1 was sold at 400 on bar 2,
\* whose oscillator is exactly 50 and whose trend-difference is > 0
C13_Witness ==
    /\ variant = "reversion_algo"
    /\ i = 2 /\ date = 2
    /\ row.Close = 400 /\ row.MACD_diff > 0 /\ row.RSI = 50
    /\ holdings = <<>>
    /\ cash = ASSET_VALUE - 11 * TAX_MULTIPLIER

(***************************************************************************)
(* C14.  LONG sizing.  A LONG entry opens floor((cash / 2) / (price *      *)
(* price_multiplier)) contracts, with no upper cap, the cash being the     *)
(* cash after the exits of the bar; when the computed quantity is <= 0,    *)
(* as with a cash of zero or less, no position is created, and a bar that  *)
(* creates none leaves the cash after its exits unchanged.                 *)
(***************************************************************************)
C14_LongSizing ==
    [][ProcessedBar =>
          /\ \A p \in Range(Opened) : p[2] = "LONG" => p[4] = Affordable
          /\ Affordable <= 0 => Opened = <<>>
          /\ Opened = <<>> => cash' = CashAfterExits]_vars

\* a LONG of more than 3 contracts: half of the initial capital at the price 400
C14_Witness ==
    /\ date = i
    /\ \E p \in Range(AllHoldings) :
        /\ p[1] = i /\ p[2] = "LONG" /\ p[3] = 400
        /\ p[4] = ASSET_VALUE \div (2 * 400 * price_multiplier)
        /\ p[4] > 3

\* the cash after the exits of a bar is negative and the bar gives an entry
\* signal: nothing is opened
C14_NegativeCash ==
    /\ date = i /\ i > 0 /\ row.na = {}
    /\ cash < 0
    /\ AllHoldings = <<>>
    /\ \E t \in Tracks : EnterLong(row, t) \/ EnterShort(row, t)

(***************************************************************************)
(* C15.  If the trend-difference reading is 0 on every processed bar, no   *)
(* entry ever triggers on any track in any variant, the cash never         *)
(* changes, the asset value of every bar is the initial capital, and the   *)
(* output has holding-period return 0 and maximum drawdown 0.              *)
(***************************************************************************)
\* the runs all of whose processed bars read a trend-difference of 0
FlatRow == row'.na = {} => \A t \in Tracks : TrendDifference(row', t) = 0

FlatNext ==
    \/ momentum_algo /\ FlatRow
    \/ dynamic_momentum_algo /\ FlatRow
    \/ reversion_algo /\ FlatRow
    \/ dynamic_reversion_algo /\ FlatRow
    \/ algo /\ FlatRow
    \/ dynamic_algo /\ FlatRow

FlatSpec == Init /\ [][FlatNext]_vars

\* trading_data['Asset'] as the column the functions of utils.py read
AssetColumn == [k \in 1 .. LastBar + 1 |-> trading_data[k - 1]]

C15_FlatTrendNoTrade ==
    /\ AllHoldings = <<>>
    /\ cash = ASSET_VALUE
    /\ \A d \in 0 .. LastBar : trading_data[d] = ASSET_VALUE
    /\ holding_period_returns(AssetColumn) = <<0, 1>>
    /\ maximum_drawdown(pct_change(AssetColumn)) = Value(<<0, 1>>)

\* the last bar of a momentum run reads an oscillator inside the LONG band
\* with a trend-difference of 0
C15_Witness ==
    /\ variant = "momentum_algo"
    /\ i = LastBar /\ date = i /\ row.na = {}
    /\ row.MACD_diff = 0 /\ row.RSI = 65 /\ row.Close = 400

(***************************************************************************)
(* Vocabulary of section 4.5: the compounded index and its running peak.   *)
(***************************************************************************)
\* the index after t periods: 1 multiplied by (1 + return) for each period
RECURSIVE Compounded(_, _)
Compounded(rs, t) ==
    IF t = 0 THEN <<1, 1>> ELSE Times(Compounded(rs, t - 1), Plus(<<1, 1>>, rs[t]))

\* the greatest of a non-empty set of fractions, and the least
Greatest(S) == CHOOSE x \in S : \A y \in S : ~Less(x, y)

Least(S) == CHOOSE x \in S : \A y \in S : ~Less(y, x)

\* the maximum of the initial index 1 and the index up to and including t
Peak(rs, t) == Greatest({Compounded(rs, k) : k \in 0 .. t})

\* min over the periods t of -(1 - compounded[t] / peak[t])
MinDrawdown(rs) ==
    Least({Minus(Over(Compounded(rs, t), Peak(rs, t)), <<1, 1>>) : t \in 1 .. Len(rs)})

\* the length of the longest run of consecutive TRUE entries of a sequence
LongestRun(flags) ==
    LET lengths == {n \in 0 .. Len(flags) :
                       \E a \in 1 .. Len(flags) - n + 1 : \A t \in a .. a + n - 1 : flags[t]}
    IN CHOOSE n \in lengths : \A m \in lengths : m <= n

Measured(metric) ==
    /\ outcome.metric = metric
    /\ outcome.result.kind = "value"

C17_ExactPercentage ==
    Measured("maximum_drawdown") =>
        /\ outcome.result.value = Times(<<100, 1>>, MinDrawdown(dropna(Return)))
        /\ ~Less(<<0, 1>>, outcome.result.value)

(***************************************************************************)
(* C17 amended.  maximum_drawdown returns 100 times that minimum rounded   *)
(* to 6 decimal places; it is never greater than 0, and a series that      *)
(* starts below its initial value reports the drawdown from the initial    *)
(* index 1.                                                                *)
(***************************************************************************)
C17_RoundedPercentage ==
    Measured("maximum_drawdown") =>
        /\ outcome.result.value = round6(Times(<<100, 1>>, MinDrawdown(dropna(Return))))
        /\ ~Less(<<0, 1>>, outcome.result.value)
        /\ Less(dropna(Return)[1], <<0, 1>>) => Less(outcome.result.value, <<0, 1>>)

\* the first return is -2/3: the index starts below 1 and the drawdown from 1
\* is reported, to 6 decimal places
C17_Witness ==
    /\ Measured("maximum_drawdown")
    /\ dropna(Return) = <<(<<-2, 3>>)>>
    /\ outcome.result.value = <<-66666667, 1000000>>

(***************************************************************************)
(* C18.  maximum_drawdown, longest_drawdown, sharpe_ratio and              *)
(* sortino_ratio each fail with the error 'Period returns is empty' and    *)
(* return no value when the return series is empty after dropping the      *)
(* undefined entries, as for a table of a single row.                      *)
(***************************************************************************)
C18_EmptySeriesFails ==
    (outcome.metric # "none" /\ dropna(Return) = <<>>) =>
        /\ outcome.result.kind = "error"
        /\ outcome.result.message = "Period returns is empty"

\* the table of a single row: its only return is the NaN of pct_change
C18_Witness ==
    /\ Return = <<NaN>>
    /\ outcome.metric = "sharpe_ratio"
    /\ outcome.result.kind = "error"

(***************************************************************************)
(* C19.  When the non-empty return series holds a return of exactly -1,    *)
(* maximum_drawdown and longest_drawdown fail with the total-capital-loss  *)
(* error wherever the -1 is, while sharpe_ratio and sortino_ratio do not   *)
(* fail; when the series is empty the empty-series error is raised, not    *)
(* the capital-loss error.                                                 *)
(***************************************************************************)
C19_TotalLossFails ==
    LET rs == dropna(Return)
        drawdown == outcome.metric \in {"maximum_drawdown", "longest_drawdown"}
        ratio == outcome.metric \in {"sharpe_ratio", "sortino_ratio"}
    IN /\ (drawdown /\ \E k \in 1 .. Len(rs) : rs[k] = <<-1, 1>>) =>
            /\ outcome.result.kind = "error"
            /\ outcome.result.message = "All capital of the portfolio is lost"
       /\ (ratio /\ \E k \in 1 .. Len(rs) : rs[k] = <<-1, 1>>) =>
            outcome.result.kind # "error"
       /\ (drawdown /\ rs = <<>>) =>
            /\ outcome.result.kind = "error"
            /\ outcome.result.message = "Period returns is empty"

\* the -1 is the last return of the series, after returns that are not -1
C19_Witness ==
    /\ outcome.metric = "longest_drawdown"
    /\ Len(Return) = MaxReturns + 1
    /\ Return[MaxReturns + 1] = <<-1, 1>>
    /\ \A k \in 2 .. MaxReturns : Return[k] # <<-1, 1>>
    /\ outcome.result.kind = "error"

(***************************************************************************)
(* C20.  The asset value of the first row, and of every bar up to and      *)
(* including the bar on which the first position of the run is opened, is  *)
(* the initial capital ASSET_VALUE exactly: a step from a state in which   *)
(* nothing has been traded leaves the value of every row so far at         *)
(* ASSET_VALUE, whether or not it opens a position.                        *)
(***************************************************************************)
C20_InitialCapitalUntilFirstEntry ==
    [][(Bar /\ AllHoldings = <<>> /\ cash = ASSET_VALUE) =>
          \A d \in 0 .. i' : trading_data'[d] = ASSET_VALUE]_vars

\* the first position of the run is opened on bar 2 or later
C20_Witness ==
    /\ i >= 2 /\ date = i
    /\ AllHoldings # <<>>
    /\ \A p \in Range(AllHoldings) : p[1] = i
    /\ cash # ASSET_VALUE
    /\ \A d \in 0 .. i : trading_data[d] = ASSET_VALUE

(***************************************************************************)
(* C23.  Cash is changed only by an entry or an exit.  On a processed bar  *)
(* on which no position is closed and none is opened, the cash and the     *)
(* open positions of every track are after the bar what they were before   *)
(* it, and the asset column is written in the cell of that bar only.       *)
(***************************************************************************)
C23_QuietBar == ProcessedBar /\ Closed = <<>> /\ Opened = <<>>

C23_CashOnlyByTrades ==
    [][C23_QuietBar =>
          /\ cash' = cash
          /\ holdings' = holdings
          /\ holdings_momentum' = holdings_momentum
          /\ holdings_reversion' = holdings_reversion
          /\ \A d \in DOMAIN trading_data : d # i' => trading_data'[d] = trading_data[d]]_vars

\* a LONG of 11 bought at 400 on bar 1 is carried over bar 2 (price 4600 is
\* below the take-profit only when the volatility was 2800: levels -5200 and
\* 8800), which closes and opens nothing: the cash is still the cash after
\* the purchase and the cell of bar 2 holds the position at the new price
C23_Witness ==
    /\ variant = "momentum_algo"
    /\ i = 2 /\ date = 2
    /\ row.Close = 4600
    /\ Len(holdings) = 1 /\ holdings[1][1] = 1 /\ holdings[1][2] = "LONG" /\ holdings[1][4] = 11
    /\ cash = ASSET_VALUE - 11 * 400 * price_multiplier
    /\ trading_data[2] = cash + 11 * 4600 * price_multiplier

(***************************************************************************)
(* C29.  Entries never overdraw the account.  In every variant, on a       *)
(* processed bar whose cash after the exits is >= 0, the cash after all    *)
(* the entries of the bar is >= 0, and the debit of every LONG opened on   *)
(* the bar is at most half of the cash after the exits (so two LONGs       *)
(* opened on one bar by the two tracks of a hybrid variant fit together).  *)
(***************************************************************************)
C29_NoOverdraw ==
    [][(ProcessedBar /\ CashAfterExits >= 0) =>
          /\ cash' >= 0
          /\ \A p \in Range(Opened) :
                p[2] = "LONG" => 2 * p[4] * p[3] * price_multiplier <= CashAfterExits]_vars

\* both tracks of algo bought 11 contracts at 400 on the first bar: of the
\* initial capital 2 * 11 * 400 * price_multiplier is spent and the rest,
\* which is >= 0, is the cash
C29_Witness ==
    /\ variant = "algo"
    /\ i = 1 /\ date = 1
    /\ Len(holdings_momentum) = 1 /\ holdings_momentum[1][2] = "LONG" /\ holdings_momentum[1][4] = 11
    /\ Len(holdings_reversion) = 1 /\ holdings_reversion[1][2] = "LONG" /\ holdings_reversion[1][4] = 11
    /\ cash = ASSET_VALUE - 22 * 400 * price_multiplier
    /\ cash >= 0

(***************************************************************************)
(* C28.  In the hybrid variants the available capital of a bar is one      *)
(* value, half of the cash after the exits of the bar, and both tracks     *)
(* size from it: a position opened by the reversion track has the quantity *)
(* floor(available / (price * price_multiplier)), capped at 3 for a SHORT, *)
(* whether or not the momentum track opened a position on the same bar,    *)
(* and a LONG opened by the momentum track has that same uncapped          *)
(* quantity.                                                               *)
(***************************************************************************)
C28_OneCapitalPerBar ==
    [][(ProcessedBar /\ variant \in HybridVariants) =>
          /\ \A p \in Range(OpenedOf("reversion")) :
                p[4] = IF p[2] = "LONG" THEN Affordable ELSE Min(Affordable, 3)
          /\ \A p \in Range(OpenedOf("momentum")) :
                /\ p[4] <= Affordable
                /\ p[2] = "LONG" => p[4] = Affordable]_vars

\* on the first bar of dynamic_algo the momentum track bought 11 contracts at
\* 400, which took 11 * 400 * price_multiplier from the cash, and the reversion
\* track bought 11 as well: half of the initial capital pays for 11, half of
\* what the momentum purchase left pays for 5
C28_Witness ==
    /\ variant = "dynamic_algo"
    /\ i = 1 /\ date = 1 /\ row.Close = 400
    /\ Len(holdings_momentum) = 1 /\ holdings_momentum[1][2] = "LONG" /\ holdings_momentum[1][4] = 11
    /\ Len(holdings_reversion) = 1 /\ holdings_reversion[1][2] = "LONG" /\ holdings_reversion[1][4] = 11
    /\ (ASSET_VALUE - 11 * 400 * price_multiplier) \div (2 * 400 * price_multiplier) = 5

(***************************************************************************)
(* C22.  No forced liquidation.  The last bar is processed as any other:   *)
(* a position open before it that meets none of the exit conditions of its *)
(* track on that bar is still open after it; no step follows the last bar, *)
(* so what is open then stays open and no closing cash movement or tax is  *)
(* applied to it; and the asset value recorded for the last bar, when it   *)
(* is processed, is the final cash plus the signed notional of the open    *)
(* positions at the price of that bar.                                     *)
(***************************************************************************)
\* the exit test the code applies to position p of track t on the row read
C22_ExitApplies(p, t) ==
    IF IsMomentum(t) THEN C11_MustClose(p, t)
    ELSE IF p[2] = "LONG"
    THEN \/ row'.Close >= p[6]
         \/ row'.Close <= p[5]
         \/ Oscillator(row', t) >= 50
         \/ TrendDifference(row', t) < 0
    ELSE \/ row'.Close <= p[6]
         \/ row'.Close >= p[5]
         \/ (IF variant \in HybridVariants
             THEN Oscillator(row', t) >= 50 ELSE Oscillator(row', t) <= 50)
         \/ TrendDifference(row', t) > 0

C22_NoForcedLiquidation ==
    /\ [][(ProcessedBar /\ i' = LastBar) =>
             \A t \in Tracks : \A p \in Range(TrackHoldings(t)) :
                 ~C22_ExitApplies(p, t) => p \in Range(TrackHoldings(t)')]_vars
    /\ [](i = LastBar => ~ENABLED Next)
    /\ []((i = LastBar /\ date = i) =>
             trading_data[i] = cash + SignedQuantity(AllHoldings) * cur_price * price_multiplier)

\* momentum_algo has read its last row; the SHORT of 3 sold at 400 on an
\* earlier bar is still open, the cash still holds the proceeds of the sale,
\* and the last asset value counts the position at the last price
C22_Witness ==
    /\ variant = "momentum_algo"
    /\ i = LastBar /\ date = i
    /\ Len(holdings) = 1 /\ holdings[1][1] < i /\ holdings[1][2] = "SHORT" /\ holdings[1][4] = 3
    /\ cash = ASSET_VALUE + 3 * 400 * price_multiplier
    /\ trading_data[i] = cash - 3 * cur_price * price_multiplier
    /\ ~ENABLED Next

(***************************************************************************)
(* C21.  Determinism.  In every variant the state after a bar (cash, open  *)
(* positions of every track, multipliers, asset column) is a function of   *)
(* the state before it and of the row read: from no state does the same    *)
(* row lead to two different states, so two runs over the same rows with   *)
(* the same configuration pass through the same states and give the same   *)
(* asset column.                                                           *)
(***************************************************************************)
\* what a run carries from one bar to the next, and what it writes
C21_State ==
    <<variant, rsi_threshold, atr_multiplier, i, date, cur_price, cash, holdings,
      holdings_momentum, holdings_reversion, momentum_atr_multiplier,
      reversion_atr_multiplier, trading_data>>

\* the iteration of the loop of the variant that runs, on row r
C21_Iteration(r) ==
    /\ i' = i + 1
    /\ row' = r
    /\ \/ variant = "momentum_algo" /\ momentum_algo_step(r, i + 1)
       \/ variant = "dynamic_momentum_algo" /\ dynamic_momentum_algo_step(r, i + 1)
       \/ variant = "reversion_algo" /\ reversion_algo_step(r, i + 1)
       \/ variant = "dynamic_reversion_algo" /\ dynamic_reversion_algo_step(r, i + 1)
       \/ variant = "algo" /\ algo_step(r, i + 1)
       \/ variant = "dynamic_algo" /\ dynamic_algo_step(r, i + 1)
    /\ IF variant \in HybridVariants
       THEN UNCHANGED <<variant, rsi_threshold, atr_multiplier, holdings, metric_vars, script_vars, loader_vars>>
       ELSE UNCHANGED <<variant, rsi_threshold, hybrid_vars, metric_vars, script_vars, loader_vars>>

C30_MomentumRow ==
    [Close |-> row'.Close, MACD_diff |-> row'.MACD_diff_mom, RSI |-> row'.RSI_mom,
     ATR |-> row'.ATR_mom, na |-> {}]

C30_SameStateMachine ==
    [][(/\ ProcessedBar
        /\ variant = "algo"
        /\ holdings_reversion = <<>>
        /\ ~EnterLong(row', "reversion") /\ ~EnterShort(row', "reversion")) =>
          LET r == C30_MomentumRow
              kept == SelectSeq(holdings_momentum, LAMBDA p : ~momentum_exit(p, r, rsi_threshold))
              closed == SelectSeq(holdings_momentum, LAMBDA p : momentum_exit(p, r, rsi_threshold))
              cash1 == cash + sum_close_cash(closed, r.Close)
              entered == momentum_entry(cash1, kept, r, i', rsi_threshold, momentum_atr_multiplier)
          IN /\ trading_data'[i'] = cash1 + total_unrealized(kept, r.Close)
             /\ cash' = entered[1]
             /\ holdings_momentum' = entered[2]
             /\ holdings_reversion' = <<>>]_vars

(***************************************************************************)
(* C27.  sharpe_ratio returns 0 when the sample standard deviation of the  *)
(* non-empty return series is 0, and sortino_ratio returns 0 when no       *)
(* return of the non-empty series is below the risk-free rate (the         *)
(* downside deviation is then 0); neither raises an error in that case.    *)
(***************************************************************************)
RECURSIVE C27_Sum(_)
C27_Sum(rs) == IF rs = <<>> THEN <<0, 1>> ELSE Plus(Head(rs), C27_Sum(Tail(rs)))

\* the sum of the squared deviations from the mean, over n - 1, is 0
C27_SampleDeviationZero(rs) ==
    /\ Len(rs) >= 2
    /\ \A k \in 1 .. Len(rs) : Minus(rs[k], Over(C27_Sum(rs), <<Len(rs), 1>>)) = <<0, 1>>

C27_NoneBelowRiskFree(rs) == \A k \in 1 .. Len(rs) : ~Less(rs[k], risk_free_return)

C27_ZeroRiskGivesZero ==
    LET rs == dropna(Return)
    IN /\ (outcome.metric = "sharpe_ratio" /\ rs # <<>> /\ C27_SampleDeviationZero(rs)) =>
              (outcome.result.kind = "value" /\ outcome.result.value = 0)
       /\ (outcome.metric = "sortino_ratio" /\ rs # <<>> /\ C27_NoneBelowRiskFree(rs)) =>
              (outcome.result.kind = "value" /\ outcome.result.value = 0)

\* the one return of the table is the risk-free return itself: it is not
\* below it, its term (val - risk_free_return) ** 2 is 0, and sortino_ratio
\* gave 0
C27_Witness ==
    /\ Return = <<NaN, risk_free_return>>
    /\ Measured("sortino_ratio")
    /\ outcome.result.value = 0

\* three equal returns: the sample standard deviation is 0 and sharpe_ratio gave 0
C27_WitnessSharpe ==
    /\ Return = <<NaN, <<-1, 2>>, <<-1, 2>>, <<-1, 2>>>>
    /\ Measured("sharpe_ratio")
    /\ outcome.result.value = 0

(***************************************************************************)
(* C24.  In the report of the backtest script each of maximum drawdown,    *)
(* longest drawdown, Sharpe ratio and Sortino ratio is attempted exactly   *)
(* once, in that order, whatever the others gave: once the holding-period  *)
(* return is printed, the k-th line after it is the line of the k-th       *)
(* metric, showing the value its function returns on the table or the      *)
(* message of the error it raises, and no error of a metric ends the       *)
(* script.                                                                 *)
(***************************************************************************)
\* what the metric of line k of the report gives on a 'Return' column
C24_Metric(k, column) ==
    CASE k = 2 -> maximum_drawdown(column)
      [] k = 3 -> longest_drawdown(column)
      [] k = 4 -> sharpe_ratio(column)
      [] k = 5 -> sortino_ratio(column)

C24_Labels == <<"Holding Period Return", "Maximum Drawdown", "Longest Drawdown",
                "Sharpe Ratio", "Sortino Ratio">>

C24_EveryMetricReported ==
    (printed # <<>> /\ printed[1].label = C24_Labels[1]) =>
        /\ Len(printed) <= 5
        /\ \A k \in 2 .. Len(printed) :
              /\ printed[k].label = C24_Labels[k]
              /\ printed[k].shown = C24_Metric(k, result.Return)
        /\ ~aborted

\* the table of two rows whose second asset value is 0: the two drawdown
\* functions failed with the capital-loss error, and the two ratios were
\* then computed and printed
C24_Witness ==
    /\ Len(printed) = 5
    /\ printed[2].shown = Error("All capital of the portfolio is lost")
    /\ printed[3].shown = Error("All capital of the portfolio is lost")
    /\ printed[4].shown.kind # "error"
    /\ printed[5].shown.kind # "error"

(***************************************************************************)
(* C25.  The backtest command line runs dynamic_algo when --dynamic is     *)
(* 'true' and algo when --dynamic is 'false'.                              *)
(***************************************************************************)
C25_DynamicSelectsDynamicAlgo ==
    variant # "__main__" =>
        /\ args.dynamic = "true" => variant = "dynamic_algo"
        /\ args.dynamic = "false" => variant = "algo"

(***************************************************************************)
(* C26.  After process_split_data the in-sample and the out-of-sample      *)
(* table together hold no two rows of the same timestamp and no row with   *)
(* a missing Open, High, Low or Close, and no timestamp of the raw table   *)
(* that has a row with all four prices is lost, whatever the raw table:    *)
(* one with a timestamp repeated with different prices, or one with the    *)
(* same prices at different timestamps.                                    *)
(***************************************************************************)
C26_Returned == in_sample \o out_sample

C26_NoRepeatedTimestamp ==
    variant = "returned" =>
        \A j, k \in 1 .. Len(C26_Returned) : j # k => C26_Returned[j].Time # C26_Returned[k].Time

C26_NoMissingPrice ==
    variant = "returned" => \A k \in 1 .. Len(C26_Returned) : C26_Returned[k].na = {}

C26_NoTimestampLost ==
    variant = "returned" =>
        \A k \in 1 .. Len(data) :
            data[k].na = {} => \E j \in 1 .. Len(C26_Returned) : C26_Returned[j].Time = data[k].Time

C26_CleanTables == C26_NoRepeatedTimestamp /\ C26_NoMissingPrice /\ C26_NoTimestampLost

(***************************************************************************)
(* C31 as the specification states it.  In each dynamic variant and track  *)
(* the multiplier of the levels of a position is the one selected on its   *)
(* entry bar: the higher constant (2.0) when the short-window volatility   *)
(* is strictly above the long-window one, and the other, different         *)
(* constant (1.5) otherwise, equal readings included.                      *)
(***************************************************************************)
C31_Short(r, t) ==
    CASE t = "momentum" -> r.ATR_mom_short [] t = "reversion" -> r.ATR_rev_short
      [] OTHER -> r.ATR_short

C31_Long(r, t) ==
    CASE t = "momentum" -> r.ATR_mom_long [] t = "reversion" -> r.ATR_rev_long
      [] OTHER -> r.ATR_long

\* the levels of the positions track t opens on the bar are at the distance
\* volatility * mult / 10 from the price, and mult is the multiplier of the bar
C31_EntriesUse(t, mult) ==
    /\ BarMultiplier(t)' = mult
    /\ \A p \in Range(OpenedOf(t)) :
          /\ 10 * (p[6] - p[3]) = Side(p) * Volatility(row', t) * mult
          /\ 10 * (p[3] - p[5]) = Side(p) * Volatility(row', t) * mult

C31_Policy(r, t) ==
    IF t = "momentum" THEN 20
    ELSE IF C31_Short(r, t) > C31_Long(r, t) THEN 20 ELSE 15

C33_Close == [k \in 1 .. Len(data) |-> <<data[k].Close, 1>>]

C33_FastIsFast ==
    /\ (variant \in SingleVariants /\ data # <<>> /\ "MACD_diff" \in DOMAIN data[1]) =>
          \A k \in 1 .. Len(data) :
              data[k].MACD_diff =
                  macd_diff(C33_Close, args.slow_ema_window, args.fast_ema_window,
                            args.ema_signal_window)[k]
    /\ (variant \in HybridVariants /\ data # <<>> /\ "MACD_diff_mom" \in DOMAIN data[1]) =>
          \A k \in 1 .. Len(data) :
              /\ data[k].MACD_diff_mom =
                    macd_diff(C33_Close, args.momentum_slow_ema, args.momentum_fast_ema,
                              args.momentum_signal_ema)[k]
              /\ data[k].MACD_diff_rev =
                    macd_diff(C33_Close, args.reversion_slow_ema, args.reversion_fast_ema,
                              args.reversion_signal_ema)[k]

(***************************************************************************)
(* C34.  A sweep is aborted by the first combination whose metric          *)
(* computation raises: the error that ends the sweep is the empty-series   *)
(* or the total-capital-loss error of a combination that was run, and no   *)
(* table is returned.                                                      *)
(***************************************************************************)
C34_MetricErrors == {Error("Period returns is empty"),
                     Error("All capital of the portfolio is lost")}

C35_Combinations ==
    CASE args.algo = "static_momentum" -> 8 * 10 * 3 * 6 * 3 * 12 * 3
      [] args.algo = "dynamic_momentum" -> 8 * 10 * 3 * 8 * 3 * 12
      [] args.algo = "static_reversion" -> 10 * 15 * 6 * 5 * 9 * 3
      [] args.algo = "dynamic_reversion" -> 10 * 15 * 7 * 5 * 9

C36_IndicatorExit(p, r, t) ==
    LET far == IF p[2] = "LONG"
               THEN <<p[1], p[2], p[3], p[4], -1, 2 * r.Close>>
               ELSE <<p[1], p[2], p[3], p[4], 2 * r.Close, -1>>
    IN CASE t = "momentum" -> algo_momentum_exit(far, r, rsi_threshold)
         [] t = "reversion" -> algo_reversion_exit(far, r)
         [] OTHER -> IF IsMomentum(t) THEN momentum_exit(far, r, rsi_threshold)
                     ELSE reversion_exit(far, r)

\* as stated: no position opened meets its own indicator exit
C36_NeverOpenedExitable ==
    [][ProcessedBar =>
          \A t \in Tracks : \A p \in Range(OpenedOf(t)) : ~C36_IndicatorExit(p, row', t)]_vars

\* as the code has it: a position opened meets its own indicator exit exactly
\* when it is a SHORT of the reversion track of algo or dynamic_algo, which is
\* opened at an oscillator above 70 and closed at an oscillator of 50 or more
C36_OnlyHybridReversionShort ==
    [][ProcessedBar =>
          \A t \in Tracks : \A p \in Range(OpenedOf(t)) :
              C36_IndicatorExit(p, row', t) <=> (t = "reversion" /\ p[2] = "SHORT")]_vars

\* algo has opened on one bar a momentum LONG, which the readings of the bar
\* would not close, and a reversion SHORT, which they would
C36_Witness ==
    /\ variant = "algo"
    /\ date = i /\ row.na = {}
    /\ Len(holdings_momentum) = 1 /\ holdings_momentum[1][1] = i
    /\ holdings_momentum[1][2] = "LONG"
    /\ ~C36_IndicatorExit(holdings_momentum[1], row, "momentum")
    /\ Len(holdings_reversion) = 1 /\ holdings_reversion[1][1] = i
    /\ holdings_reversion[1][2] = "SHORT"
    /\ row.RSI_rev > 70
    /\ C36_IndicatorExit(holdings_reversion[1], row, "reversion")

(***************************************************************************)
(* C37.  For a non-empty return series without a return of -1, the         *)
(* maximum drawdown before rounding is 0 if and only if the longest        *)
(* drawdown is 0: both are 0 exactly when the compounded index never       *)
(* falls below its running peak, the initial index 1 included; and the     *)
(* longest drawdown is at least 0 and at most the number of returns.       *)
(***************************************************************************)
C37_Returns == dropna(Return)

C37_NeverBelowPeak ==
    \A t \in 1 .. Len(C37_Returns) :
        ~Less(Compounded(C37_Returns, t), Peak(C37_Returns, t))

C37_DrawdownsVanishTogether ==
    (C37_Returns # <<>> /\ ~has_total_loss(C37_Returns)) =>
        LET unrounded == mdd_loop(C37_Returns, <<1, 1>>, <<1, 1>>, <<0, 1>>)
            longest == longest_drawdown(Return).value
        IN /\ unrounded = <<0, 1>> <=> longest = 0
           /\ unrounded = <<0, 1>> <=> C37_NeverBelowPeak
           /\ 0 <= longest /\ longest <= Len(C37_Returns)
           /\ Measured("longest_drawdown") => outcome.result.value = longest
           /\ Measured("maximum_drawdown") =>
                 outcome.result.value = round6(Times(unrounded, <<100, 1>>))

\* longest_drawdown has measured 0 on a series that doubles and then stays:
\* the index holds its peak of 2, and the unrounded maximum drawdown is 0
C37_Witness ==
    /\ Measured("longest_drawdown")
    /\ outcome.result.value = 0
    /\ C37_Returns = <<<<1, 1>>, <<0, 1>>>>
    /\ mdd_loop(C37_Returns, <<1, 1>>, <<1, 1>>, <<0, 1>>) = <<0, 1>>

(***************************************************************************)
(* C38.  process_split_data partitions the cleaned rows by time: the       *)
(* in-sample table followed by the out-of-sample table is the cleaned      *)
(* table, so every cleaned row is in exactly one of the two; the in-sample *)
(* rows are those with a timestamp strictly before split_date and the      *)
(* out-of-sample rows those at or after it; and both tables are in         *)
(* non-decreasing order of timestamp.                                      *)
(***************************************************************************)
C38_Ordered(table) ==
    \A k \in 1 .. Len(table) - 1 : table[k].Time <= table[k + 1].Time

====
